---- MODULE Spec2Model ----
(***************************************************************************)
(* A model of the liquid template engine: the renderer (Renderer::render   *)
(* and the tag / object visitors) as a small-step machine over an explicit *)
(* call stack, and the expression parser's ObjectParser::buildExpr as a    *)
(* recursive operator.                                                     *)
(***************************************************************************)
EXTENDS Integers, Sequences, FiniteSets, TLC

VARIABLES
  phase,      \* "idle" | "running" | "done" | "crashed"
  input,      \* the arguments of the render call in progress
  m_result,   \* Renderer::m_result, a sequence of characters
  m_errors,   \* Renderer::m_errors
  flags,      \* Context::flags()
  scopes,     \* Context::scopes()
  cstack,     \* the C++ call stack below Renderer::render, innermost last
  trace,      \* history: one entry per node processed / handler event
  bx          \* state of the buildExpr specification

vars == <<phase, input, m_result, m_errors, flags, scopes, cstack, trace, bx>>

(***************************************************************************)
(* Bounds of the explored input space.                                     *)
(***************************************************************************)
MaxLen == 2      \* longest array handed to a for loop
MaxTop == 3      \* longest straight-line top-level template
MaxOps == 3      \* longest operator list handed to buildExpr

(***************************************************************************)
(* json values (json-toolkit): a type tag and the payload of that type.    *)
(***************************************************************************)
Null == [t |-> "null"]
JBool(b) == [t |-> "bool", b |-> b]
JInt(i) == [t |-> "int", i |-> i]
JStr(s) == [t |-> "str", s |-> s]
JArr(a) == [t |-> "arr", a |-> a]
JObj(o) == [t |-> "obj", o |-> o]

Names == {"x", "y", "xs", "forloop", "include"}

EmptyData == [n \in Names |-> Null]

\* json::Object::operator[] on a namespace: an absent member reads as null
Member(o, name) == IF name \in DOMAIN o THEN o[name] ELSE Null

\* the object o with member name set to val
WithMember(o, name, val) ==
  [m \in (DOMAIN o) \cup {name} |-> IF m = name THEN val ELSE o[m]]


(***************************************************************************)
(* Results of an evaluation: a value, a thrown EvaluationException, or the *)
(* process killed by a trap (integer division by zero, which is undefined  *)
(* behaviour: a build either traps or yields some integer).                *)
(***************************************************************************)
Ok(v) == [st |-> "ok", v |-> v]
Throw(msg) == [st |-> "throw", msg |-> msg]
Crash == [st |-> "crash"]

\* what the language leaves to the build: whether an integer division by zero
\* traps, and which operand of the built-in ^ is evaluated first
Builds == [trap : BOOLEAN, xor_rhs_first : BOOLEAN]

\* Renderer::evalCondition
evalCondition(val) ==
  IF val.t = "bool" THEN val.b
  ELSE IF val.t = "int" THEN val.i # 0
  ELSE val.t # "null"

\* the highest index of a set of scope indexes
MaxOf(S) == CHOOSE i \in S : \A j \in S : j <= i

\* Renderer::eval_variable: innermost scope with a non-null member
eval_variable(name, sc) ==
  LET hits == {i \in 1..Len(sc) : Member(sc[i].data, name) # Null}
  IN IF hits = {} THEN Null ELSE Member(sc[MaxOf(hits)].data, name)

\* Renderer::eval_memberaccess, on the evaluated object
eval_memberaccess(obj, name) ==
  IF obj.t = "arr"
    THEN IF name \in {"size", "length"} THEN Ok(JInt(Len(obj.a))) ELSE Ok(Null)
  ELSE IF obj.t = "obj" THEN Ok(Member(obj.o, name))
  ELSE IF obj.t = "str"
    THEN IF name \in {"size", "length"} THEN Ok(JInt(Len(obj.s))) ELSE Ok(Null)
  ELSE Throw("Value does not support member access")

\* Renderer::eval_arrayaccess, on the evaluated object and index; an index
\* outside the array is left to json-toolkit and is kept out of the inputs
eval_arrayaccess(obj, index) ==
  IF index.t = "int"
    THEN IF obj.t # "arr" THEN Throw("Value is not an array")
         ELSE IF index.i >= 0 /\ index.i < Len(obj.a) THEN Ok(obj.a[index.i + 1])
         ELSE Ok(Null)
  ELSE IF index.t = "str"
    THEN IF obj.t # "obj" THEN Throw("Value is not an object")
         ELSE Ok(Member(obj.o, index.s))
  ELSE Throw("Index must be a 'string' or an 'int'")

\* json::compare restricted to what the templates compare: integers by
\* value, other values by type rank
TypeRank(val) ==
  CASE val.t = "null" -> 0 [] val.t = "bool" -> 1 [] val.t = "int" -> 2
    [] val.t = "str" -> 3 [] val.t = "arr" -> 4 [] OTHER -> 5

compare(lhs, rhs) ==
  IF lhs.t = "int" /\ rhs.t = "int"
    THEN (IF lhs.i < rhs.i THEN -1 ELSE IF lhs.i > rhs.i THEN 1 ELSE 0)
  ELSE IF TypeRank(lhs) < TypeRank(rhs) THEN -1
  ELSE IF TypeRank(lhs) > TypeRank(rhs) THEN 1
  ELSE 0

\* Renderer::json_add
json_add(lhs, rhs) ==
  IF lhs.t = "int" /\ rhs.t = "int" THEN Ok(JInt(lhs.i + rhs.i))
  ELSE IF lhs.t = "str" /\ rhs.t = "str" THEN Ok(JStr(lhs.s \o rhs.s))
  ELSE IF lhs.t = "arr" /\ rhs.t = "arr" THEN Ok(JArr(lhs.a \o rhs.a))
  ELSE Throw("operator + cannot proceed with given operands")

\* Renderer::json_sub
json_sub(lhs, rhs) ==
  IF lhs.t = "int" /\ rhs.t = "int" THEN Ok(JInt(lhs.i - rhs.i))
  ELSE Throw("operator - cannot proceed with given operands")

\* Renderer::json_mul
json_mul(lhs, rhs) ==
  IF lhs.t = "int" /\ rhs.t = "int" THEN Ok(JInt(lhs.i * rhs.i))
  ELSE Throw("operator * cannot proceed with given operands")

\* C++ integer division truncates toward zero
TruncDiv(a, b) ==
  IF (a >= 0) = (b > 0) THEN (IF a >= 0 THEN a \div b ELSE (-a) \div (-b))
  ELSE -((IF a >= 0 THEN a ELSE -a) \div (IF b >= 0 THEN b ELSE -b))

\* Renderer::json_div: lhs.toInt() / rhs.toInt() with no test of the divisor
json_div(lhs, rhs, build) ==
  IF lhs.t = "int" /\ rhs.t = "int"
    THEN IF rhs.i = 0 THEN (IF build.trap THEN Crash ELSE Ok(JInt(0)))
         ELSE Ok(JInt(TruncDiv(lhs.i, rhs.i)))
  ELSE Throw("operator * cannot proceed with given operands")

\* ArrayFilters::applyAny: no array filter is registered in this model
ArrayFilters_applyAny(name, array, args) == Throw("Invalid filter name")

\* Renderer::applyFilter of the base renderer
applyFilter(name, object, args) ==
  IF object.t = "arr" THEN ArrayFilters_applyAny(name, object.a, args)
  ELSE Throw("Invalid filter name")

\* the filters of the tests' CustomRenderer; std::toupper on the letters used
toupper(c) ==
  CASE c = "a" -> "A" [] c = "b" -> "B" [] c = "o" -> "O" [] OTHER -> c

filter_uppercase(str) == [j \in 1..Len(str) |-> toupper(str[j])]
filter_mul(x, y) == x * y

\* std::string::substr(pos, count) for pos inside the string
filter_substr(str, pos, count) ==
  SubSeq(str, pos + 1, IF pos + count < Len(str) THEN pos + count ELSE Len(str))

\* CustomRenderer::applyFilter: the three filters on operands of their
\* types, any other name and any other operands go to Renderer::applyFilter
CustomRenderer_applyFilter(name, object, args) ==
  IF name = "uppercase" /\ object.t = "str" /\ args = <<>>
    THEN Ok(JStr(filter_uppercase(object.s)))
  ELSE IF name = "mul" /\ object.t = "int" /\ Len(args) = 1 /\ args[1].t = "int"
    THEN Ok(JInt(filter_mul(object.i, args[1].i)))
  ELSE IF /\ name = "substr" /\ object.t = "str" /\ Len(args) = 2
          /\ args[1].t = "int" /\ args[2].t = "int"
          /\ args[1].i >= 0 /\ args[1].i <= Len(object.s) /\ args[2].i >= 0
    THEN Ok(JStr(filter_substr(object.s, args[1].i, args[2].i)))
  ELSE applyFilter(name, object, args)

(***************************************************************************)
(* Renderer::eval and the visitObject overloads.  Expression nodes are     *)
(* records tagged by k.                                                    *)
(***************************************************************************)
Value(v) == [k |-> "Value", value |-> v]
Variable(n) == [k |-> "Variable", name |-> n]
MemberAccess(o, n) == [k |-> "MemberAccess", object |-> o, name |-> n]
ArrayAccess(o, i) == [k |-> "ArrayAccess", object |-> o, index |-> i]
BinOp(op, l, r) == [k |-> "BinOp", operation |-> op, lhs |-> l, rhs |-> r]
LogicalNot(o) == [k |-> "LogicalNot", object |-> o]
Pipe(o, f, a) == [k |-> "Pipe", object |-> o, filterName |-> f, arguments |-> a]

\* Renderer::eval_binop after both operands are evaluated
eval_binop_values(op, lhs, rhs, build) ==
  CASE op = "Equal" -> Ok(JBool(lhs = rhs))
    [] op = "Inequal" -> Ok(JBool(lhs # rhs))
    [] op = "Less" -> Ok(JBool(compare(lhs, rhs) < 0))
    [] op = "Leq" -> Ok(JBool(compare(lhs, rhs) <= 0))
    [] op = "Greater" -> Ok(JBool(compare(lhs, rhs) > 0))
    [] op = "Geq" -> Ok(JBool(compare(lhs, rhs) >= 0))
    [] op = "Add" -> json_add(lhs, rhs)
    [] op = "Sub" -> json_sub(lhs, rhs)
    [] op = "Mul" -> json_mul(lhs, rhs)
    [] op = "Div" -> json_div(lhs, rhs, build)

RECURSIVE eval(_, _, _)
RECURSIVE eval_list(_, _, _)

\* evalCondition(eval(binop.lhs)) ^ evalCondition(eval(binop.rhs)): the two
\* operands of ^ are unsequenced, the build decides which is evaluated first;
\* || and && evaluate the left one first, and so do the two declarations
\* lhs, rhs of the other operators
rhs_first(binop, build) == binop.operation = "Xor" /\ build.xor_rhs_first

\* Renderer::eval_binop
eval_binop(binop, sc, build) ==
  IF rhs_first(binop, build)
    THEN LET r == eval(binop.rhs, sc, build)
         IN IF r.st # "ok" THEN r
            ELSE LET l == eval(binop.lhs, sc, build)
                 IN IF l.st # "ok" THEN l
                    ELSE Ok(JBool(evalCondition(l.v) # evalCondition(r.v)))
  ELSE
  LET l == eval(binop.lhs, sc, build)
  IN IF l.st # "ok" THEN l
     ELSE IF binop.operation = "Or" /\ evalCondition(l.v) THEN Ok(JBool(TRUE))
     ELSE IF binop.operation = "And" /\ ~evalCondition(l.v) THEN Ok(JBool(FALSE))
     ELSE LET r == eval(binop.rhs, sc, build)
          IN IF r.st # "ok" THEN r
             ELSE IF binop.operation \in {"Or", "And"} THEN Ok(JBool(evalCondition(r.v)))
             ELSE IF binop.operation = "Xor"
               THEN Ok(JBool(evalCondition(l.v) # evalCondition(r.v)))
             ELSE eval_binop_values(binop.operation, l.v, r.v, build)

\* a variant that evaluates the arguments before the object
eval_pipe_arguments_first(pipe, sc, build) ==
  LET a == eval_list(pipe.arguments, sc, build)
  IN IF a.st # "ok" THEN a
     ELSE LET o == eval(pipe.object, sc, build)
          IN IF o.st # "ok" THEN o
             ELSE CustomRenderer_applyFilter(pipe.filterName, o.v, a.v)

\* Renderer::eval_pipe: the object, then the arguments, then the virtual
\* applyFilter (the renderer is the CustomRenderer of the tests)
eval_pipe(pipe, sc, build) ==
  LET o == eval(pipe.object, sc, build)
  IN IF o.st # "ok" THEN o
     ELSE LET a == eval_list(pipe.arguments, sc, build)
          IN IF a.st # "ok" THEN a
             ELSE CustomRenderer_applyFilter(pipe.filterName, o.v, a.v)

\* Renderer::eval on a vector of objects
eval_list(objs, sc, build) ==
  IF objs = <<>> THEN Ok(<<>>)
  ELSE LET h == eval(Head(objs), sc, build)
       IN IF h.st # "ok" THEN h
          ELSE LET t == eval_list(Tail(objs), sc, build)
               IN IF t.st # "ok" THEN t ELSE Ok(<<h.v>> \o t.v)

\* Renderer::eval
eval(obj, sc, build) ==
  CASE obj.k = "Value" -> Ok(obj.value)
    [] obj.k = "Variable" -> Ok(eval_variable(obj.name, sc))
    [] obj.k = "MemberAccess" ->
         LET o == eval(obj.object, sc, build)
         IN IF o.st # "ok" THEN o ELSE eval_memberaccess(o.v, obj.name)
    [] obj.k = "ArrayAccess" ->
         LET o == eval(obj.object, sc, build)
         IN IF o.st # "ok" THEN o
            ELSE LET i == eval(obj.index, sc, build)
                 IN IF i.st # "ok" THEN i ELSE eval_arrayaccess(o.v, i.v)
    [] obj.k = "BinOp" -> eval_binop(obj, sc, build)
    [] obj.k = "LogicalNot" ->
         LET o == eval(obj.object, sc, build)
         IN IF o.st # "ok" THEN o ELSE Ok(JBool(~evalCondition(o.v)))
    [] obj.k = "Pipe" -> eval_pipe(obj, sc, build)

(***************************************************************************)
(* Renderer::stringify                                                     *)
(***************************************************************************)
DigitChars == <<"0", "1", "2", "3", "4", "5", "6", "7", "8", "9">>

RECURSIVE Digits(_)
Digits(n) == IF n < 10 THEN <<DigitChars[n + 1]>>
             ELSE Digits(n \div 10) \o <<DigitChars[(n % 10) + 1]>>

\* StringBackend::from_integer
from_integer(n) == IF n < 0 THEN <<"-">> \o Digits(-n) ELSE Digits(n)

\* json::stringify for the values that reach it
json_stringify(val) ==
  IF val.t = "bool" THEN (IF val.b THEN <<"t", "r", "u", "e">> ELSE <<"f", "a", "l", "s", "e">>)
  ELSE IF val.t = "arr" THEN <<"[", "]">>
  ELSE <<"{", "}">>

stringify(val) ==
  IF val.t = "null" THEN <<>>
  ELSE IF val.t = "str" THEN val.s
  ELSE IF val.t = "int" THEN from_integer(val.i)
  ELSE json_stringify(val)


(***************************************************************************)
(* Template nodes (templates::Node): text, objects (the expression nodes   *)
(* above) and tags.                                                        *)
(***************************************************************************)
ObjectKinds ==
  {"Value", "Variable", "MemberAccess", "ArrayAccess", "BinOp", "LogicalNot", "Pipe"}

Text(s) == [k |-> "Text", text |-> s]
Assign(var, e, parent, global) ==
  [k |-> "Assign", variable |-> var, value |-> e,
   parent_scope |-> parent, global_scope |-> global]
For(var, e, body) == [k |-> "For", variable |-> var, object |-> e, body |-> body]
Block(c, body) == [condition |-> c, body |-> body]
If(blocks) == [k |-> "If", blocks |-> blocks]
Capture(var, body) == [k |-> "Capture", variable |-> var, body |-> body]
Include(name, objs) == [k |-> "Include", name |-> name, objects |-> objs]
Break == [k |-> "Break"]
Continue == [k |-> "Continue"]
Eject == [k |-> "Eject"]
Discard == [k |-> "Discard"]

\* Parser::process_tag_else: the block an else tag adds to the open if
process_tag_else(body) == Block(Value(JBool(TRUE)), body)

(***************************************************************************)
(* Context: the scope stack and the flag register.                         *)
(***************************************************************************)
FlagBreak == 1
FlagContinue == 2
FlagEject == 4
FlagDiscard == 8

HasFlag(f, bit) == (f \div bit) % 2 = 1
SetFlag(f, bit) == IF HasFlag(f, bit) THEN f ELSE f + bit

ScopeData(kind, tmpl) == [kind |-> kind, template |-> tmpl, data |-> EmptyData]

\* Context::Scope constructor and destructor
PushScope(sc, kind, tmpl) == Append(sc, ScopeData(kind, tmpl))
PopScope(sc) == SubSeq(sc, 1, Len(sc) - 1)

FileScopes(sc) == {i \in 1..Len(sc) : sc[i].kind = "FileScope"}

\* a variant that takes the innermost frame, whatever its kind
currentFileScope_innermost(sc) == Len(sc)

\* Context::currentFileScope: the innermost file scope
currentFileScope(sc) == MaxOf(FileScopes(sc))

\* Context::parentFileScope: the file scope below the innermost one
parentFileScope(sc) == MaxOf(FileScopes(sc) \ {currentFileScope(sc)})

\* scope frame at with member name of its data set to val
SetVar(sc, at, name, val) ==
  [sc EXCEPT ![at].data = WithMember(@, name, val)]


(***************************************************************************)
(* The renderer as a machine.  cstack holds one record per C++ activation  *)
(* below Renderer::render: the loop of render itself ("render"), a call of *)
(* process(nodes) ("nodes") and the visitTag calls of the block tags       *)
(* ("for", "if", "capture", "include").  A "render" or "nodes" record is   *)
(* at pc "call" before process(n) of its node i and at "ret" once that     *)
(* call has returned.  id is the trace index of the entry that opened the  *)
(* enclosing block, ctx the enclosing for loops with their iteration.      *)
(***************************************************************************)
Top == cstack[Len(cstack)]
Pop(s) == SubSeq(s, 1, Len(s) - 1)
SetTop(s, r) == [s EXCEPT ![Len(s)] = r]

Running(op) == phase = "running" /\ cstack # <<>> /\ Top.op = op

AtNode(kinds) ==
  /\ phase = "running" /\ cstack # <<>>
  /\ Top.op \in {"render", "nodes"} /\ Top.pc = "call"
  /\ Top.i <= Len(Top.nodes)
  /\ Top.nodes[Top.i].k \in kinds

Cur == Top.nodes[Top.i]

\* the caller's record once process(n) of its current node has returned
Returned == SetTop(cstack, [Top EXCEPT !.pc = "ret"])

NodesCall(nodes, id, blk, ctx) ==
  [op |-> "nodes", nodes |-> nodes, i |-> 1, pc |-> "call",
   id |-> id, blk |-> blk, ctx |-> ctx]

\* history entries
Ev(k, par, blk, idx, last, ctx, var, val, depth, out) ==
  [k |-> k, par |-> par, blk |-> blk, idx |-> idx, last |-> last, ctx |-> ctx,
   var |-> var, val |-> val, depth |-> depth, out |-> out, flags |-> flags]

NodeVar(n) == IF n.k \in {"For", "Assign", "Capture"} THEN n.variable ELSE ""

NodeVal(n) ==
  IF n.k = "For"
    THEN [x |-> eval_variable(n.variable, scopes),
          forloop |-> eval_variable("forloop", scopes)]
  ELSE IF n.k = "Assign" THEN [global |-> n.global_scope, parent |-> n.parent_scope]
  ELSE IF n.k = "If" THEN [blocks |-> Len(n.blocks)]
  ELSE Null

\* process(n) is entered for the current node
NodeEv ==
  Ev(Cur.k, Top.id, Top.blk, Top.i, Top.i = Len(Top.nodes), Top.ctx,
     NodeVar(Cur), NodeVal(Cur), Len(scopes), Len(m_result))

\* an event of the block activation act
BlockEv(k, act, blk, idx, val, depth, out) ==
  Ev(k, act.id, blk, idx, FALSE, act.ctx, NodeVar(act.tag), val, depth, out)

\* a variant that leaves the flag register as it is
reset_keeps_flags ==
  [result |-> <<>>, errors |-> <<>>,
   scopes |-> <<ScopeData("GlobalScope", "")>>, flags |-> flags]

\* Renderer::reset
reset ==
  [result |-> <<>>, errors |-> <<>>,
   scopes |-> <<ScopeData("GlobalScope", "")>>, flags |-> 0]

\* Renderer::render up to the loop: reset, seed frame 0, Context::Scope template_scope
render(t, data) ==
  /\ phase = "idle"
  /\ phase' = "running"
  /\ input' = [template |-> t, data |-> data]
  /\ m_result' = reset.result
  /\ m_errors' = reset.errors
  /\ flags' = reset.flags
  /\ scopes' = PushScope([reset.scopes EXCEPT ![Len(reset.scopes)].data = data],
                         "FileScope", t.filePath)
  /\ cstack' = <<[op |-> "render", nodes |-> t.nodes, i |-> 1, pc |-> "call",
                  id |-> 0, blk |-> 0, ctx |-> <<>>]>>
  /\ trace' = <<>>
  /\ UNCHANGED bx

\* the RAII scopes alive below render: template_scope and one per for / include
LiveScopes(cs) ==
  1 + Cardinality({j \in 1..Len(cs) : cs[j].op \in {"for", "include"}})

\* Renderer::log: record the error and write the inline marker
Marker(msg) == <<"{!", msg, "!}">>

\* a variant that catches inside the loop of render and goes on with the
\* next top-level node
Raise_resuming(msg, evs) ==
  /\ scopes' = SubSeq(scopes, 1, Len(scopes) - LiveScopes(cstack) + 1)
  /\ m_errors' = Append(m_errors, [message |-> msg])
  /\ m_result' = m_result \o Marker(msg)
  /\ cstack' = <<[cstack[1] EXCEPT !.pc = "ret"]>>
  /\ trace' = trace \o evs \o
       <<Ev("throw", Top.id, 0, 0, FALSE, Top.ctx, "", msg, Len(scopes), Len(m_result))>>
  /\ UNCHANGED <<phase, input, flags, bx>>

\* an EvaluationException leaves the try block of render: the scopes of the
\* unwound activations are destroyed, then catch (...) { log(ex); }
Raise(msg, evs) ==
  /\ scopes' = SubSeq(scopes, 1, Len(scopes) - LiveScopes(cstack))
  /\ m_errors' = Append(m_errors, [message |-> msg])
  /\ m_result' = m_result \o Marker(msg)
  /\ cstack' = <<[cstack[1] EXCEPT !.pc = "end"]>>
  /\ trace' = trace \o evs \o
       <<Ev("throw", Top.id, 0, 0, FALSE, Top.ctx, "", msg, Len(scopes), Len(m_result))>>
  /\ UNCHANGED <<phase, input, flags, bx>>

\* the process is killed by the trap of an integer division by zero
Trap ==
  /\ phase' = "crashed"
  /\ UNCHANGED <<input, m_result, m_errors, flags, scopes, cstack, trace, bx>>

Fail(r, evs) == IF r.st = "crash" THEN Trap ELSE Raise(r.msg, evs)

\* Renderer::process(node), text node
process_text ==
  /\ AtNode({"Text"})
  /\ m_result' = m_result \o Cur.text
  /\ cstack' = Returned
  /\ trace' = Append(trace, NodeEv)
  /\ UNCHANGED <<phase, input, m_errors, flags, scopes, bx>>

\* Renderer::process(node), object node: write(stringify(eval(n)))
process_object ==
  /\ AtNode(ObjectKinds)
  /\ \E build \in Builds :
       LET r == eval(Cur, scopes, build)
       IN IF r.st = "ok"
            THEN /\ m_result' = m_result \o stringify(r.v)
                 /\ cstack' = Returned
                 /\ trace' = Append(trace, NodeEv)
                 /\ UNCHANGED <<phase, input, m_errors, flags, scopes, bx>>
            ELSE Fail(r, <<NodeEv>>)

\* a variant in which every assign writes to frame 0
AssignTarget_frameZero(assign, sc) == 1

\* the frame an assign writes to
AssignTarget(assign, sc) ==
  IF assign.global_scope THEN 1
  ELSE IF assign.parent_scope THEN parentFileScope(sc)
  ELSE currentFileScope(sc)

\* Renderer::visitTag(const tags::Assign&)
visitTag_Assign ==
  /\ AtNode({"Assign"})
  /\ \E build \in Builds :
       LET r == eval(Cur.value, scopes, build)
       IN IF r.st = "ok"
            THEN /\ scopes' = SetVar(scopes, AssignTarget(Cur, scopes), Cur.variable, r.v)
                 /\ cstack' = Returned
                 /\ trace' = Append(trace, NodeEv)
                 /\ UNCHANGED <<phase, input, m_result, m_errors, flags, bx>>
            ELSE Fail(r, <<NodeEv>>)

\* the flag tags: context().flags() |= bit
FlagTag(kind, bit) ==
  /\ AtNode({kind})
  /\ flags' = SetFlag(flags, bit)
  /\ cstack' = Returned
  /\ trace' = Append(trace, NodeEv)
  /\ UNCHANGED <<phase, input, m_result, m_errors, scopes, bx>>

visitTag_Break == FlagTag("Break", FlagBreak)
visitTag_Continue == FlagTag("Continue", FlagContinue)
visitTag_Eject == FlagTag("Eject", FlagEject)
visitTag_Discard == FlagTag("Discard", FlagDiscard)

\* Renderer::process(nodes): if (context().flags() != 0) return;
nodes_should_return(f) == f # 0

process_nodes_ret ==
  /\ Running("nodes") /\ Top.pc = "ret"
  /\ cstack' = IF nodes_should_return(flags) THEN Pop(cstack)
               ELSE SetTop(cstack, [Top EXCEPT !.i = @ + 1, !.pc = "call"])
  /\ UNCHANGED <<phase, input, m_result, m_errors, flags, scopes, trace, bx>>

\* Renderer::process(nodes): the loop is over
process_nodes_end ==
  /\ Running("nodes") /\ Top.pc = "call" /\ Top.i > Len(Top.nodes)
  /\ cstack' = Pop(cstack)
  /\ UNCHANGED <<phase, input, m_result, m_errors, flags, scopes, trace, bx>>


(***************************************************************************)
(* Renderer::visitTag(const tags::For&)                                    *)
(***************************************************************************)
\* json::Json container = eval(tag.object); Context::Scope forloop{...};
visitTag_For ==
  /\ AtNode({"For"})
  /\ \E build \in Builds :
       LET r == eval(Cur.object, scopes, build)
       IN IF r.st = "ok"
            THEN /\ scopes' = PushScope(scopes, "ControlBlockScope", "")
                 /\ cstack' = Append(Returned,
                      [op |-> "for", tag |-> Cur, container |-> r.v, i |-> 0,
                       pc |-> "head", id |-> Len(trace) + 1, ctx |-> Top.ctx,
                       frame |-> Len(scopes) + 1])
                 /\ trace' = Append(trace, NodeEv)
                 /\ UNCHANGED <<phase, input, m_result, m_errors, flags, bx>>
            ELSE Fail(r, <<NodeEv>>)

\* the forloop namespace of iteration i of n
ForloopObject(i, n) ==
  JObj([index |-> JInt(i), first |-> JBool(i = 0), last |-> JBool(i = n - 1)])

\* a variant that binds in the file scope, where the bindings outlive the loop
BindLoop_inFileScope(sc, act) ==
  SetVar(SetVar(sc, currentFileScope(sc), act.tag.variable, act.container.a[act.i + 1]),
         currentFileScope(sc), "forloop", ForloopObject(act.i, Len(act.container.a)))

\* the loop frame at the start of iteration act.i
BindLoop(sc, act) ==
  SetVar(SetVar(sc, act.frame, act.tag.variable, act.container.a[act.i + 1]),
         act.frame, "forloop", ForloopObject(act.i, Len(act.container.a)))

\* for (int i(0); i < container.length(); ++i): is there an iteration i
for_has_next(container, i) == container.t = "arr" /\ i < Len(container.a)

\* the loop head: bind the loop variable and forloop, then process(tag.body);
\* or leave the loop, which destroys the Scope
for_head ==
  /\ Running("for") /\ Top.pc = "head"
  /\ IF for_has_next(Top.container, Top.i)
       THEN /\ scopes' = BindLoop(scopes, Top)
            /\ cstack' = Append(SetTop(cstack, [Top EXCEPT !.pc = "after"]),
                 NodesCall(Top.tag.body, Top.id, 0,
                   Append(Top.ctx, [for |-> Top.id, i |-> Top.i,
                                    n |-> Len(Top.container.a)])))
            /\ trace' = Append(trace,
                 BlockEv("iter", Top, 0, Top.i,
                   [coll |-> Top.container,
                    x |-> Member(scopes'[Top.frame].data, Top.tag.variable),
                    forloop |-> Member(scopes'[Top.frame].data, "forloop")],
                   Len(scopes), Len(m_result)))
       ELSE /\ scopes' = PopScope(scopes)
            /\ cstack' = Pop(cstack)
            /\ trace' = Append(trace,
                 BlockEv("endfor", Top, 0, Top.i,
                   [why |-> "end", coll |-> Top.container,
                    x |-> eval_variable(Top.tag.variable, scopes'),
                    forloop |-> eval_variable("forloop", scopes')],
                   Len(scopes'), Len(m_result)))
  /\ UNCHANGED <<phase, input, m_result, m_errors, flags, bx>>

\* what the for handler does with the flags after a body execution:
\* the flags it leaves and whether the loop goes on
for_after_flags(f) ==
  IF HasFlag(f, FlagContinue) \/ HasFlag(f, FlagBreak)
    THEN [flags |-> 0, go |-> IF HasFlag(f, FlagBreak) THEN "break" ELSE "next"]
  ELSE IF HasFlag(f, FlagEject) THEN [flags |-> f, go |-> "eject"]
  ELSE [flags |-> f, go |-> "next"]

for_after ==
  /\ Running("for") /\ Top.pc = "after"
  /\ LET d == for_after_flags(flags)
     IN /\ flags' = d.flags
        /\ IF d.go = "next"
             THEN /\ cstack' = SetTop(cstack, [Top EXCEPT !.i = @ + 1, !.pc = "head"])
                  /\ UNCHANGED <<scopes, trace>>
             ELSE /\ scopes' = PopScope(scopes)
                  /\ cstack' = Pop(cstack)
                  /\ trace' = Append(trace,
                       BlockEv("endfor", Top, 0, Top.i,
                         [why |-> d.go, coll |-> Top.container,
                          x |-> eval_variable(Top.tag.variable, scopes'),
                          forloop |-> eval_variable("forloop", scopes')],
                         Len(scopes'), Len(m_result)))
  /\ UNCHANGED <<phase, input, m_result, m_errors, bx>>

(***************************************************************************)
(* Renderer::visitTag(const tags::If&)                                     *)
(***************************************************************************)
visitTag_If ==
  /\ AtNode({"If"})
  /\ cstack' = Append(Returned,
       [op |-> "if", tag |-> Cur, i |-> 1, pc |-> "head",
        id |-> Len(trace) + 1, ctx |-> Top.ctx])
  /\ trace' = Append(trace, NodeEv)
  /\ UNCHANGED <<phase, input, m_result, m_errors, flags, scopes, bx>>

\* a variant without the return: the loop over the blocks goes on after a body
if_falls_through == FALSE

\* process(b.body); return;  -- the handler returns after the first body it runs
if_returns_after_body == TRUE

\* one turn of the loop over the blocks: evaluate the condition of block i
if_head ==
  /\ Running("if") /\ Top.pc = "head"
  /\ IF Top.i > Len(Top.tag.blocks)
       THEN /\ cstack' = Pop(cstack)
            /\ trace' = Append(trace,
                 BlockEv("endif", Top, 0, 0, Null, Len(scopes), Len(m_result)))
            /\ UNCHANGED <<phase, input, m_result, m_errors, flags, scopes, bx>>
       ELSE \E build \in Builds :
              LET b == Top.tag.blocks[Top.i]
                  r == eval(b.condition, scopes, build)
                  ev == BlockEv("cond", Top, Top.i, 0, r, Len(scopes), Len(m_result))
              IN IF r.st = "ok"
                   THEN /\ cstack' =
                             IF evalCondition(r.v)
                               THEN Append(SetTop(cstack, [Top EXCEPT !.pc = "after"]),
                                           NodesCall(b.body, Top.id, Top.i, Top.ctx))
                               ELSE SetTop(cstack, [Top EXCEPT !.i = @ + 1])
                        /\ trace' = Append(trace, ev)
                        /\ UNCHANGED <<phase, input, m_result, m_errors, flags, scopes, bx>>
                   ELSE Fail(r, <<>>)

\* process(b.body) has returned
if_after ==
  /\ Running("if") /\ Top.pc = "after"
  /\ IF if_returns_after_body
       THEN /\ cstack' = Pop(cstack)
            /\ trace' = Append(trace,
                 BlockEv("endif", Top, Top.i, 0, Null, Len(scopes), Len(m_result)))
       ELSE /\ cstack' = SetTop(cstack, [Top EXCEPT !.i = @ + 1, !.pc = "head"])
            /\ UNCHANGED trace
  /\ UNCHANGED <<phase, input, m_result, m_errors, flags, scopes, bx>>

(***************************************************************************)
(* Renderer::visitTag(const tags::Capture&)                                *)
(***************************************************************************)
visitTag_Capture ==
  /\ AtNode({"Capture"})
  /\ cstack' = Append(
       Append(Returned,
         [op |-> "capture", tag |-> Cur, offset |-> Len(m_result),
          id |-> Len(trace) + 1, ctx |-> Top.ctx]),
       NodesCall(Cur.body, Len(trace) + 1, 0, Top.ctx))
  /\ trace' = Append(trace, NodeEv)
  /\ UNCHANGED <<phase, input, m_result, m_errors, flags, scopes, bx>>

\* process(tag.body) has returned: cut the captured text out and store it
capture_after ==
  /\ Running("capture")
  /\ m_result' = SubSeq(m_result, 1, Top.offset)
  /\ scopes' = SetVar(scopes, currentFileScope(scopes), Top.tag.variable,
                      JStr(SubSeq(m_result, Top.offset + 1, Len(m_result))))
  /\ cstack' = Pop(cstack)
  /\ trace' = Append(trace,
       BlockEv("endcapture", Top, 0, 0, Null, Len(scopes), Len(m_result')))
  /\ UNCHANGED <<phase, input, m_errors, flags, bx>>


(***************************************************************************)
(* Renderer::visitTag(const tags::Include&)                                *)
(***************************************************************************)
\* a variant that replaces the namespace by the one entry
SetInclude_replacing(sc, name, val) ==
  SetVar(sc, Len(sc), "include", JObj([m \in {name} |-> val]))

\* include_scope["include"][name] = val on the innermost frame
SetInclude(sc, name, val) ==
  LET ns == Member(sc[Len(sc)].data, "include")
  IN SetVar(sc, Len(sc), "include",
            JObj(IF ns.t = "obj" THEN WithMember(ns.o, name, val)
                 ELSE [m \in {name} |-> val]))

\* for (const auto& e : tag.objects) include_scope["include"][e.first] = eval(e.second);
RECURSIVE IncludeBind(_, _, _)
IncludeBind(objs, sc, build) ==
  IF objs = <<>> THEN Ok(sc)
  ELSE LET r == eval(Head(objs).value, sc, build)
       IN IF r.st # "ok" THEN r
          ELSE IncludeBind(Tail(objs), SetInclude(sc, Head(objs).name, r.v), build)

\* Renderer::templates(): the templates an include can name
IncBody == <<Text(<<"i">>), Variable("x")>>
IncBreak == <<Text(<<"i">>), Break, Text(<<"j">>)>>
IncEject == <<Eject, Text(<<"j">>)>>
IncBad == <<Pipe(Variable("x"), "nofilter", <<>>)>>
IncAssign == <<Assign("x", Value(JInt(5)), FALSE, FALSE), Variable("x")>>
IncParent ==
  <<Assign("y", Value(JInt(6)), TRUE, FALSE),
    For("x", Variable("xs"),
        <<Assign("x", Value(JInt(3)), TRUE, FALSE), Assign("y", Value(JInt(2)), FALSE, FALSE),
          Assign("x", Value(JInt(4)), FALSE, TRUE)>>),
    Variable("y")>>
\* {{ include.a }}{{ include.b }}
IncLeaf ==
  <<MemberAccess(Variable("include"), "a"), MemberAccess(Variable("include"), "b")>>
\* m{% include leaf with a = include.v %}
IncMid ==
  <<Text(<<"m">>),
    Include("leaf", <<[name |-> "a", value |-> MemberAccess(Variable("include"), "v")]>>)>>
\* {% include leaf with a = 1 and b = include.a %}
IncOrd ==
  <<Include("leaf", <<[name |-> "a", value |-> Value(JInt(1))],
                      [name |-> "b", value |-> MemberAccess(Variable("include"), "a")]>>)>>

m_templates ==
  [body |-> [nodes |-> IncBody, filePath |-> "body"],
   brk |-> [nodes |-> IncBreak, filePath |-> "brk"],
   ejt |-> [nodes |-> IncEject, filePath |-> "ejt"],
   bad |-> [nodes |-> IncBad, filePath |-> "bad"],
   asg |-> [nodes |-> IncAssign, filePath |-> "asg"],
   par |-> [nodes |-> IncParent, filePath |-> "par"],
   mid |-> [nodes |-> IncMid, filePath |-> "mid"],
   ord |-> [nodes |-> IncOrd, filePath |-> "ord"],
   leaf |-> [nodes |-> IncLeaf, filePath |-> "leaf"]]

visitTag_Include ==
  /\ AtNode({"Include"})
  /\ IF Cur.name \notin DOMAIN m_templates
       THEN Raise("No template named", <<NodeEv>>)
       ELSE \E build \in Builds :
              LET tmplt == m_templates[Cur.name]
                  sc0 == SetInclude(PushScope(scopes, "FileScope", tmplt.filePath),
                                    "__", JBool(TRUE))
                  r == IncludeBind(Cur.objects, sc0, build)
              IN IF r.st = "ok"
                   THEN /\ scopes' = r.v
                        /\ cstack' = Append(
                             Append(Returned,
                               [op |-> "include", tag |-> Cur,
                                id |-> Len(trace) + 1, ctx |-> Top.ctx]),
                             NodesCall(tmplt.nodes, Len(trace) + 1, 0, Top.ctx))
                        /\ trace' = Append(trace, NodeEv)
                        /\ UNCHANGED <<phase, input, m_result, m_errors, flags, bx>>
                   ELSE Fail(r, <<NodeEv>>)

\* process(tmplt.nodes()) has returned: include_scope is destroyed
include_after ==
  /\ Running("include")
  /\ scopes' = PopScope(scopes)
  /\ cstack' = Pop(cstack)
  /\ trace' = Append(trace,
       BlockEv("endinclude", Top, 0, 0, Null, Len(scopes'), Len(m_result)))
  /\ UNCHANGED <<phase, input, m_result, m_errors, flags, bx>>

(***************************************************************************)
(* Renderer::render: the loop over t.nodes() and the end of the call       *)
(***************************************************************************)
\* if (context().flags() & Context::Eject) break;
render_should_break(f) == HasFlag(f, FlagEject)

\* process(n) has returned to the loop of render
render_ret ==
  /\ Running("render") /\ Top.pc = "ret"
  /\ IF render_should_break(flags)
       THEN /\ scopes' = PopScope(scopes)
            /\ cstack' = SetTop(cstack, [Top EXCEPT !.pc = "end"])
       ELSE /\ cstack' = SetTop(cstack, [Top EXCEPT !.i = @ + 1, !.pc = "call"])
            /\ UNCHANGED scopes
  /\ UNCHANGED <<phase, input, m_result, m_errors, flags, trace, bx>>

\* the loop of render is over: template_scope is destroyed
render_loop_end ==
  /\ Running("render") /\ Top.pc = "call" /\ Top.i > Len(Top.nodes)
  /\ scopes' = PopScope(scopes)
  /\ cstack' = SetTop(cstack, [Top EXCEPT !.pc = "end"])
  /\ UNCHANGED <<phase, input, m_result, m_errors, flags, trace, bx>>

\* if (flags & Eject) { if (flags == Discard) m_result.clear(); flags = 0; }
render_final(result, f) ==
  IF HasFlag(f, FlagEject)
    THEN [result |-> IF f = FlagDiscard THEN <<>> ELSE result, flags |-> 0]
  ELSE [result |-> result, flags |-> f]

\* return m_result;
render_return ==
  /\ Running("render") /\ Top.pc = "end"
  /\ m_result' = render_final(m_result, flags).result
  /\ flags' = render_final(m_result, flags).flags
  /\ phase' = "done"
  /\ cstack' = <<>>
  /\ trace' = Append(trace,
       Ev("return", 0, 0, 0, FALSE, <<>>, "", Null, Len(scopes), Len(m_result)))
  /\ UNCHANGED <<input, m_errors, scopes, bx>>


(***************************************************************************)
(* The templates and data the renderer is run on.  Text is the sequence of *)
(* its characters; "x" is bound to 7 in the data, "y" is absent, "xs" is   *)
(* <<1, ..., n>> or a non-array.                                           *)
(***************************************************************************)
MaxBlocks == 3

RECURSIVE SeqsUpTo(_, _)
SeqsUpTo(A, n) ==
  IF n = 0 THEN {<<>>}
  ELSE LET S == SeqsUpTo(A, n - 1)
       IN S \cup {Append(s, a) : s \in {t \in S : Len(t) = n - 1}, a \in A}

Arr(n) == JArr([i \in 1..n |-> JInt(i)])
DataWith(xs) == [EmptyData EXCEPT !["x"] = JInt(7), !["xs"] = xs]
PlainData == {DataWith(Arr(1))}
LoopData == {DataWith(Arr(n)) : n \in 0..MaxLen} \cup {DataWith(JInt(5))}

EX == Variable("x")
EY == Variable("y")
EBad == Pipe(Variable("x"), "nofilter", <<>>)
EDiv == BinOp("Div", Value(JInt(1)), Value(JInt(0)))
TextA == Text(<<"a">>)
TextB == Text(<<"b">>)
AssignLocal == Assign("x", Value(JInt(3)), FALSE, FALSE)
AssignGlobal == Assign("x", Value(JInt(4)), FALSE, TRUE)

\* straight-line templates
TopLeaf == {TextA, EX, EBad, EDiv, Break, Continue, Eject, Discard, AssignGlobal}
Straight == SeqsUpTo(TopLeaf, MaxTop) \ {<<>>}

\* {% for x in xs %} body {% endfor %}{{ x }}, after an optional first node
Gt1(name) == BinOp("Greater", Variable(name), Value(JInt(1)))
IfThen(c, body) == If(<<Block(c, body)>>)
InnerBodies ==
  {<<Break, TextA>>, <<Continue, TextA>>, <<Eject>>, <<EY>>,
   <<IfThen(Gt1("y"), <<Break>>), EY>>, <<IfThen(Gt1("y"), <<Continue>>), EY>>}
BodyLeaf ==
  {TextA, EX, EBad, EDiv, Break, Continue, Eject, Discard, AssignLocal, AssignGlobal,
   IfThen(Gt1("x"), <<Break>>), IfThen(Gt1("x"), <<Continue>>),
   IfThen(Value(JBool(TRUE)), <<IfThen(Gt1("x"), <<Break>>), TextB>>),
   IfThen(Value(JBool(TRUE)), <<IfThen(Gt1("x"), <<Continue>>), TextB>>),
   Capture("x", <<TextB>>), Capture("y", <<Break, TextB>>),
   Include("brk", <<>>), Include("body", <<>>)}
     \cup {For("y", Variable("xs"), b) : b \in InnerBodies}
LoopBodies ==
  {<<a>> : a \in BodyLeaf} \cup {<<a, EX>> : a \in BodyLeaf}
     \cup {<<TextA, a>> : a \in BodyLeaf}
     \cup {<<IfThen(Gt1("x"), <<Eject>>), TextA, Discard>>,
           <<IfThen(Gt1("x"), <<Break>>), Discard>>}
LoopPre == {<<>>, <<Break>>, <<Discard>>, <<AssignLocal>>}
Loops ==
  {pre \o <<For("x", Variable("xs"), b), EX>> : pre \in LoopPre, b \in LoopBodies}

\* {% if c1 %}1{{ x }}{% elsif c2 %}2{{ x }}...{% else %}e{% endif %}b
Conds == {EX, EY, Value(JInt(0)), EBad, EDiv}
BlockBody(i) == <<Text(from_integer(i)), EX>>
BlocksOf(cs) == [i \in 1..Len(cs) |-> Block(cs[i], BlockBody(i))]
Ifs ==
  LET css == SeqsUpTo(Conds, MaxBlocks) \ {<<>>}
  IN {<<If(BlocksOf(cs)), TextB>> : cs \in css}
       \cup {<<If(Append(BlocksOf(cs), process_tag_else(<<Text(<<"e">>)>>))), TextB>> :
               cs \in css}

\* {% capture x %} body {% endcapture %}{{ x }}
Captures ==
  {<<Capture("x", b), EX>> :
     b \in SeqsUpTo({TextA, EX, EBad, Break, Eject}, 2) \ {<<>>}}

\* {% include name with v = e %}{{ x }}
Includes ==
  {<<Include(n, o), EX>> :
     n \in {"body", "brk", "ejt", "bad", "asg", "none", "mid", "ord"},
     o \in {<<>>, <<[name |-> "v", value |-> EX]>>,
            <<[name |-> "v", value |-> EBad]>>, <<[name |-> "v", value |-> EDiv]>>}}

Template(nodes) == [nodes |-> nodes, filePath |-> "main"]

Inputs ==
  {<<Template(t), d>> : t \in Straight \cup Ifs \cup Captures \cup Includes, d \in PlainData}
    \cup {<<Template(t), d>> : t \in Loops, d \in LoopData}

(***************************************************************************)
(* The renderer's specification: one call of Renderer::render.             *)
(***************************************************************************)
Init ==
  /\ phase = "idle"
  /\ input = [template |-> Template(<<>>), data |-> EmptyData]
  /\ m_result = <<>>
  /\ m_errors = <<>>
  /\ flags = 0
  /\ scopes = reset.scopes
  /\ cstack = <<>>
  /\ trace = <<>>
  /\ bx = <<>>

Render == \E in \in Inputs : render(in[1], in[2])

Next ==
  \/ Render
  \/ process_text
  \/ process_object
  \/ visitTag_Assign
  \/ visitTag_Break
  \/ visitTag_Continue
  \/ visitTag_Eject
  \/ visitTag_Discard
  \/ process_nodes_ret
  \/ process_nodes_end
  \/ visitTag_For
  \/ for_head
  \/ for_after
  \/ visitTag_If
  \/ if_head
  \/ if_after
  \/ visitTag_Capture
  \/ capture_after
  \/ visitTag_Include
  \/ include_after
  \/ render_ret
  \/ render_loop_end
  \/ render_return

Spec == Init /\ [][Next]_vars


(***************************************************************************)
(* ObjectParser::buildExpr.  An operator token is its text; the operands   *)
(* are opaque to buildExpr, so operand i is the literal i.                 *)
(***************************************************************************)
map ==
  <<[text |-> "or", name |-> "Or", precedence |-> 6],
    [text |-> "xor", name |-> "Xor", precedence |-> 6],
    [text |-> "and", name |-> "And", precedence |-> 5],
    [text |-> "!=", name |-> "Inequal", precedence |-> 4],
    [text |-> "<>", name |-> "Inequal", precedence |-> 4],
    [text |-> "==", name |-> "Equal", precedence |-> 4],
    [text |-> "<", name |-> "Less", precedence |-> 3],
    [text |-> "<=", name |-> "Leq", precedence |-> 3],
    [text |-> ">", name |-> "Greater", precedence |-> 3],
    [text |-> ">=", name |-> "Geq", precedence |-> 3],
    [text |-> "+", name |-> "Add", precedence |-> 2],
    [text |-> "-", name |-> "Sub", precedence |-> 2],
    [text |-> "*", name |-> "Mul", precedence |-> 1],
    [text |-> "/", name |-> "Div", precedence |-> 1]>>

MapTexts == {map[j].text : j \in 1..Len(map)}

\* the operator tokens Tokenizer::readOperator and the identifier test produce
OperatorTokens == MapTexts \cup {"=", "!"}

\* get_info: std::find_if(...)->second.  For a token that is not in the map
\* find_if returns end() and the dereference is undefined: junk is what the
\* build reads there
get_info(optok, junk) ==
  LET hits == {j \in 1..Len(map) : map[j].text = optok}
  IN IF hits = {} THEN junk
     ELSE LET j == CHOOSE h \in hits : \A g \in hits : h <= g
          IN [name |-> map[j].name, precedence |-> map[j].precedence]

\* what an out-of-range read of an OpInfo can give
JunkInfos ==
  {[name |-> "Or", precedence |-> 0], [name |-> "Div", precedence |-> 7]}

\* a variant of the test that also takes an operator of equal precedence
scan_takes_equal(temp_precedence, precedence) == temp_precedence >= precedence

\* if (temp_op_info.precedence > op_info.precedence): the scan runs from the
\* last operator down to the first and takes a strictly larger precedence
scan_takes(temp_precedence, precedence) == temp_precedence > precedence

\* the scan of buildExpr from operator i down to 1, (op_index, op_info) so far
RECURSIVE scan(_, _, _, _)
scan(operators, i, best, junk) ==
  IF i = 0 THEN best
  ELSE LET temp_op_info == get_info(operators[i], junk)
       IN scan(operators, i - 1,
               IF scan_takes(temp_op_info.precedence, best.op_info.precedence)
                 THEN [op_index |-> i, op_info |-> temp_op_info]
               ELSE best,
               junk)

\* vec::mid(v, from, n) on 1-based sequences
mid(v, from, n) == SubSeq(v, from, from + n - 1)

RECURSIVE buildExpr(_, _, _)
buildExpr(operands, operators, junk) ==
  IF Len(operators) = 0 THEN Head(operands)
  ELSE LET n == Len(operators)
           s == scan(operators, n - 1,
                     [op_index |-> n, op_info |-> get_info(operators[n], junk)], junk)
           lhs == buildExpr(mid(operands, 1, s.op_index),
                            mid(operators, 1, s.op_index - 1), junk)
           rhs == buildExpr(mid(operands, s.op_index + 1, Len(operands) - s.op_index),
                            mid(operators, s.op_index + 1, n - s.op_index), junk)
       IN BinOp(s.op_info.name, lhs, rhs)

\* the inputs of buildExpr: k operators and k + 1 operands
Operand(i) == Value(JInt(i))
OperandsFor(operators) == [i \in 1..(Len(operators) + 1) |-> Operand(i)]
OperatorLists == SeqsUpTo(OperatorTokens, MaxOps)

InitExpr ==
  /\ phase = "idle"
  /\ input = [template |-> Template(<<>>), data |-> EmptyData]
  /\ m_result = <<>>
  /\ m_errors = <<>>
  /\ flags = 0
  /\ scopes = reset.scopes
  /\ cstack = <<>>
  /\ trace = <<>>
  /\ \E ops \in OperatorLists :
       bx = [st |-> "tokens", operands |-> OperandsFor(ops), operators |-> ops]

\* obj = buildExpr(operands, operators);
BuildExpr ==
  /\ bx.st = "tokens"
  /\ \E junk \in JunkInfos :
       bx' = [st |-> "built", operands |-> bx.operands, operators |-> bx.operators,
              obj |-> buildExpr(bx.operands, bx.operators, junk)]
  /\ UNCHANGED <<phase, input, m_result, m_errors, flags, scopes, cstack, trace>>

NextExpr == BuildExpr

SpecExpr == InitExpr /\ [][NextExpr]_vars


(***************************************************************************)
(* Tokenizer.  A document is a sequence of characters; a span is the       *)
(* StringView (document, offset_, length_), positions are 0-based as in    *)
(* the code.  A token keeps its kind, its characters and its absolute      *)
(* offset (Token::text.offset_).                                           *)
(***************************************************************************)
Letters ==
  {"a", "b", "c", "d", "e", "f", "g", "h", "i", "j", "k", "l", "m", "n", "o", "p",
   "q", "r", "s", "t", "u", "v", "w", "x", "y", "z", "B"}
DigitSet == {DigitChars[j] : j \in 1..Len(DigitChars)}

\* StringBackend's character classes
is_space(c) == c = " "
is_newline(c) == c = "\n"
is_digit(c) == c \in DigitSet
is_letter(c) == c \in Letters
is_letter_or_number(c) == is_letter(c) \/ is_digit(c)

\* Tokenizer::mPunctuators
mPunctuators == {"!", "<", ">", "=", "+", "-", "*", "/"}

\* a variant that also takes '#'
isPunctuator_withHash(c) == c \in mPunctuators \cup {"#"}

\* Tokenizer::isPunctuator
isPunctuator(c) == c \in mPunctuators

RECURSIVE Cat(_)
\* Token::toString: the characters as one string
Cat(chars) == IF chars = <<>> THEN "" ELSE Head(chars) \o Cat(Tail(chars))

Token(kind, chars, off) == [kind |-> kind, chars |-> chars, off |-> off]
toString(tok) == Cat(tok.chars)

\* results of the tokenizer's steps
ParserException(off, msg) == [st |-> "error", off |-> off, msg |-> msg]
OutOfRange == [st |-> "out_of_range"]

\* std::string::at of StringView::operator[] is defined inside the document
InDocument(doc, k) == k < Len(doc)
charAt(doc, k) == doc[k + 1]

\* Tokenizer::atEnd
Tokenizer_atEnd(len, pos) == len = pos

RECURSIVE readSpaces(_, _, _, _)
\* Tokenizer::readSpaces
readSpaces(doc, off, len, pos) ==
  IF Tokenizer_atEnd(len, pos) THEN [st |-> "ok", pos |-> pos]
  ELSE IF ~InDocument(doc, off + pos) THEN OutOfRange
  ELSE IF is_space(charAt(doc, off + pos)) \/ is_newline(charAt(doc, off + pos))
    THEN readSpaces(doc, off, len, pos + 1)
  ELSE [st |-> "ok", pos |-> pos]

RECURSIVE readWhile(_, _, _, _, _)
\* while (!atEnd() && is_valid(peekChar())) readChar();
readWhile(doc, off, len, pos, valid) ==
  IF Tokenizer_atEnd(len, pos) THEN [st |-> "ok", pos |-> pos]
  ELSE IF ~InDocument(doc, off + pos) THEN OutOfRange
  ELSE IF charAt(doc, off + pos) \in valid THEN readWhile(doc, off, len, pos + 1, valid)
  ELSE [st |-> "ok", pos |-> pos]

\* StringView::mid(start, n).length_: std::min(n, length_ - start) on size_t
mid_length(len, start, n) == IF start <= len /\ len - start < n THEN len - start ELSE n

\* Tokenizer::produce: the token from mStartPos to the position, then readSpaces
produce(doc, off, len, start, pos, kind) ==
  LET sp == readSpaces(doc, off, len, pos)
      n == mid_length(len, start, pos - start)
  IN IF sp.st # "ok" THEN sp
     ELSE [st |-> "ok", pos |-> sp.pos,
           tok |-> Token(kind, SubSeq(doc, off + start + 1, off + start + n), off + start)]

\* Tokenizer::readIdentifier
readIdentifier(doc, off, len, start) ==
  LET w == readWhile(doc, off, len, start, Letters \cup DigitSet \cup {"_"})
  IN IF w.st # "ok" THEN w
     ELSE LET ret == produce(doc, off, len, start, w.pos, "Identifier")
          IN IF ret.st # "ok" THEN ret
             ELSE IF toString(ret.tok) \in {"or", "and", "xor"}
               THEN [ret EXCEPT !.tok.kind = "Operator"]
             ELSE IF toString(ret.tok) \in {"true", "false"}
               THEN [ret EXCEPT !.tok.kind = "BooleanLiteral"]
             ELSE ret

\* Tokenizer::readIntegerLiteral
readIntegerLiteral(doc, off, len, start) ==
  LET w == readWhile(doc, off, len, start, DigitSet)
  IN IF w.st # "ok" THEN w ELSE produce(doc, off, len, start, w.pos, "IntegerLiteral")

\* std::string::find(quote, from) on the whole document: the 0-based index, or -1
find_char(doc, c, from) ==
  LET hits == {k \in from..(Len(doc) - 1) : charAt(doc, k) = c}
  IN IF hits = {} THEN -1 ELSE CHOOSE k \in hits : \A h \in hits : k <= h

\* mInput.text_->find(quote, position() + mInput.offset_)
string_search(doc, off, len, quote, from) == find_char(doc, quote, from)

\* Tokenizer::seek
seek(len, pos) == IF pos < len THEN pos ELSE len

\* Tokenizer::readStringLiteral
readStringLiteral(doc, off, len, start) ==
  LET quote == charAt(doc, off + start)
      index == string_search(doc, off, len, quote, start + 1 + off)
  IN IF index = -1 THEN ParserException(off + start + 1, "Marlformed string literal")
     ELSE LET at == seek(len, index - off)
          IN IF ~InDocument(doc, off + at) THEN OutOfRange
             ELSE produce(doc, off, len, start, at + 1, "StringLiteral")

\* peekChar() == c, where peekChar is defined
peekIs(doc, off, pos, cs) == InDocument(doc, off + pos) /\ charAt(doc, off + pos) \in cs

\* Tokenizer::readOperator: the position after the operator's characters,
\* or out_of_range when peekChar leaves the document
readOperator_end(doc, off, len, start) ==
  LET first_char == charAt(doc, off + start)
      p == start + 1
  IN IF first_char \in {"<", ">", "=", "!"}
       THEN IF Tokenizer_atEnd(len, p) THEN [st |-> "ok", pos |-> p]
            ELSE IF ~InDocument(doc, off + p) THEN OutOfRange
            ELSE IF peekIs(doc, off, p, {"="}) THEN [st |-> "ok", pos |-> p + 1]
            ELSE IF first_char = "<" /\ peekIs(doc, off, p, {">"})
              THEN [st |-> "ok", pos |-> p + 1]
            ELSE [st |-> "ok", pos |-> p]
     ELSE [st |-> "ok", pos |-> p]

readOperator(doc, off, len, start) ==
  LET e == readOperator_end(doc, off, len, start)
  IN IF e.st # "ok" THEN e ELSE produce(doc, off, len, start, e.pos, "Operator")

\* the single-character tokens of Tokenizer::read
SingleKinds ==
  [c \in {"|", ":", ".", ",", "[", "]"} |->
     CASE c = "|" -> "Pipe" [] c = ":" -> "Colon" [] c = "." -> "Dot"
       [] c = "," -> "Comma" [] c = "[" -> "LeftBracket" [] c = "]" -> "RightBracket"]

\* Tokenizer::read at position start (not atEnd)
read(doc, off, len, start) ==
  IF ~InDocument(doc, off + start) THEN OutOfRange
  ELSE LET c == charAt(doc, off + start)
       IN IF c \in DOMAIN SingleKinds
            THEN produce(doc, off, len, start, start + 1, SingleKinds[c])
          ELSE IF is_digit(c) THEN readIntegerLiteral(doc, off, len, start)
          ELSE IF c \in {"'", "\""} THEN readStringLiteral(doc, off, len, start)
          ELSE IF is_letter(c) \/ c = "_" THEN readIdentifier(doc, off, len, start)
          ELSE IF isPunctuator(c) THEN readOperator(doc, off, len, start)
          ELSE ParserException(off + start, "Unexpected input")

RECURSIVE tokenize_loop(_, _, _, _, _)
\* while (!atEnd()) result.push_back(read());
tokenize_loop(doc, off, len, pos, result) ==
  IF Tokenizer_atEnd(len, pos) THEN [st |-> "ok", tokens |-> result]
  ELSE LET r == read(doc, off, len, pos)
       IN IF r.st # "ok" THEN r
          ELSE tokenize_loop(doc, off, len, r.pos, Append(result, r.tok))

\* Tokenizer::tokenize(StringView(&document, off, len))
tokenize(doc, off, len) ==
  LET sp == readSpaces(doc, off, len, 0)
  IN IF sp.st # "ok" THEN sp ELSE tokenize_loop(doc, off, len, sp.pos, <<>>)


(***************************************************************************)
(* ObjectParser.  Each step returns Parsed(obj, rest) with the tokens left *)
(* in the vector, a ParserException, Terminate (an exception leaves a      *)
(* noexcept function) or Undefined (front() or take_first on an empty      *)
(* vector).  junk is what get_info reads for an operator outside its map.  *)
(***************************************************************************)
Parsed(obj, rest) == [st |-> "ok", obj |-> obj, rest |-> rest]
Undefined == [st |-> "undefined"]
Terminate == [st |-> "terminate"]

\* the statements after a call: they run when the call has returned, and what
\* the call threw leaves the function
Then(r, statements(_)) == IF r.st # "ok" THEN r ELSE statements(r)

INT_MAX == 2147483647

DigitValue(c) == CHOOSE d \in 0..9 : DigitChars[d + 1] = c

RECURSIVE DecimalValue(_)
\* the value of a run of digits, or -1 when it is above INT_MAX
DecimalValue(chars) ==
  IF chars = <<>> THEN 0
  ELSE LET high == DecimalValue(SubSeq(chars, 1, Len(chars) - 1))
           d == DigitValue(chars[Len(chars)])
       IN IF high = -1 \/ high > (INT_MAX - d) \div 10 THEN -1 ELSE 10 * high + d

LiteralKinds == {"BooleanLiteral", "IntegerLiteral", "StringLiteral"}

\* ObjectParser::createLiteral (noexcept): std::stoi throws std::out_of_range
\* for a literal above INT_MAX
createLiteral(tok) ==
  IF tok.kind = "BooleanLiteral" THEN Ok(JBool(toString(tok) = "true"))
  ELSE IF tok.kind = "IntegerLiteral"
    THEN IF DecimalValue(tok.chars) = -1 THEN Terminate
         ELSE Ok(JInt(DecimalValue(tok.chars)))
  ELSE Ok(JStr(SubSeq(tok.chars, 2, Len(tok.chars) - 1)))

RECURSIVE readArray(_, _)
\* ObjectParser::readArray after the '[': readLiteral, an optional comma
readArray(tokens, result) ==
  IF tokens = <<>> THEN Undefined
  ELSE IF Head(tokens).kind = "RightBracket"
    THEN Parsed(Value(JArr(result)), Tail(tokens))
  ELSE IF Head(tokens).kind \notin LiteralKinds
    THEN ParserException(Head(tokens).off, "expected literal")
  ELSE Then(createLiteral(Head(tokens)), LAMBDA v :
         LET rest == Tail(tokens)
         IN IF rest = <<>> THEN Undefined
            ELSE IF Head(rest).kind = "Comma"
              THEN readArray(Tail(rest), Append(result, v.v))
            ELSE readArray(rest, Append(result, v.v)))

\* the first token of the kind, or 0
FirstOfKind(tokens, kind) ==
  LET hits == {j \in 1..Len(tokens) : tokens[j].kind = kind}
  IN IF hits = {} THEN 0 ELSE CHOOSE j \in hits : \A h \in hits : j <= h

RECURSIVE readOperand(_, _)
RECURSIVE readOperand_chain(_, _, _)
RECURSIVE parseObject(_, _)

\* ObjectParser::readOperand, the loop over '.' and '[' after the operand
readOperand_chain(obj, tokens, junk) ==
  IF tokens = <<>> THEN Parsed(obj, tokens)
  ELSE IF Head(tokens).kind = "Dot"
    THEN LET rest == Tail(tokens)
         IN IF rest = <<>> THEN Undefined
            ELSE IF Head(rest).kind # "Identifier"
              THEN ParserException(Head(rest).off, "Expected identifier after '.'")
            ELSE readOperand_chain(MemberAccess(obj, toString(Head(rest))), Tail(rest), junk)
  ELSE IF Head(tokens).kind = "LeftBracket"
    THEN LET left_bracket == Head(tokens)
             rest == Tail(tokens)
             j == FirstOfKind(rest, "RightBracket")
         IN IF j = 0
              THEN ParserException(left_bracket.off, "Could not find closing bracket ']'")
            ELSE IF j = 1
              THEN ParserException(left_bracket.off, "Invalid empty index in array access")
            ELSE Then(parseObject(SubSeq(rest, 1, j - 1), junk), LAMBDA index :
                   readOperand_chain(ArrayAccess(obj, index.obj),
                                     SubSeq(rest, j + 1, Len(rest)), junk))
  ELSE Parsed(obj, tokens)

\* ObjectParser::readOperand
readOperand(tokens, junk) ==
  IF tokens = <<>> THEN Undefined
  ELSE LET tok == Head(tokens)
           rest == Tail(tokens)
       IN IF tok.kind = "Identifier" /\ toString(tok) # "not"
            THEN readOperand_chain(Variable(toString(tok)), rest, junk)
          ELSE IF toString(tok) = "not"
            THEN Then(readOperand(rest, junk), LAMBDA r :
                   Parsed(LogicalNot(r.obj), r.rest))
          ELSE IF tok.kind \in LiteralKinds
            THEN Then(createLiteral(tok), LAMBDA v :
                   readOperand_chain(Value(v.v), rest, junk))
          ELSE IF tok.kind = "LeftBracket"
            THEN Then(readArray(rest, <<>>), LAMBDA a :
                   readOperand_chain(a.obj, a.rest, junk))
          ELSE ParserException(tok.off, "Expected operand")

RECURSIVE filter_arguments(_, _, _)
\* ObjectParser::applyFilter, the loop over the arguments after the ':'
filter_arguments(ret, tokens, junk) ==
  IF tokens = <<>> \/ Head(tokens).kind = "Pipe" THEN Parsed(ret, tokens)
  ELSE Then(readOperand(tokens, junk), LAMBDA a :
         LET with == [ret EXCEPT !.arguments = Append(@, a.obj)]
         IN IF a.rest = <<>> \/ Head(a.rest).kind = "Pipe" THEN Parsed(with, a.rest)
            ELSE IF Head(a.rest).kind # "Comma"
              THEN ParserException(Head(a.rest).off,
                                   "Expected ',' or '|' or end of filter expression")
            ELSE filter_arguments(with, Tail(a.rest), junk))

\* std::make_shared<objects::Pipe>(obj, name, ...)
filter_object(obj, name) == Pipe(obj, name, <<>>)

\* ObjectParser::applyFilter: the tokens start with the '|'
ObjectParser_applyFilter(obj, tokens, junk) ==
  LET after_pipe == Tail(tokens)
  IN IF after_pipe = <<>> THEN Undefined
     ELSE LET tok == Head(after_pipe)
              rest == Tail(after_pipe)
              ret == filter_object(obj, toString(tok))
          IN IF rest = <<>> \/ Head(rest).kind = "Pipe" THEN Parsed(ret, rest)
             ELSE IF Head(rest).kind # "Colon"
               THEN ParserException(Head(rest).off, "Expected ':' after filter name")
             ELSE filter_arguments(ret, Tail(rest), junk)

RECURSIVE operand_list(_, _, _, _)
\* ObjectParser::parseObject, the loop collecting operators and operands
operand_list(operands, operators, tokens, junk) ==
  IF tokens = <<>> \/ Head(tokens).kind = "Pipe"
    THEN [st |-> "ok", operands |-> operands, operators |-> operators, rest |-> tokens]
  ELSE IF Head(tokens).kind # "Operator"
    THEN ParserException(Head(tokens).off, "Expected operator")
  ELSE Then(readOperand(Tail(tokens), junk), LAMBDA r :
         operand_list(Append(operands, r.obj),
                      Append(operators, toString(Head(tokens))), r.rest, junk))

RECURSIVE filter_list(_, _, _)
\* ObjectParser::parseObject, the loop applying the filters
filter_list(obj, tokens, junk) ==
  IF tokens = <<>> \/ Head(tokens).kind # "Pipe" THEN Parsed(obj, tokens)
  ELSE Then(ObjectParser_applyFilter(obj, tokens, junk), LAMBDA f :
         filter_list(f.obj, f.rest, junk))

\* ObjectParser::parseObject
parseObject(tokens, junk) ==
  IF tokens = <<>> THEN Undefined
  ELSE IF Len(tokens) = 1 /\ Head(tokens).kind = "Identifier"
    THEN Parsed(Variable(toString(Head(tokens))), <<>>)
  ELSE Then(readOperand(tokens, junk), LAMBDA obj :
         IF obj.rest = <<>> THEN obj
         ELSE Then(operand_list(<<obj.obj>>, <<>>, obj.rest, junk), LAMBDA l :
                filter_list(buildExpr(l.operands, l.operators, junk), l.rest, junk)))


(***************************************************************************)
(* Filter chains: the source `e | f1 | ... | fk` is tokenized, parsed by   *)
(* ObjectParser::parse and evaluated by Renderer::eval.  Every piece of    *)
(* source is listed with the tree it stands for.                           *)
(***************************************************************************)
MaxFilters == 3

ChainHeads ==
  {[chars |-> <<"x">>,
    obj |-> Variable("x")],
   [chars |-> <<"'", "B", "o", "b", "2", "'">>,
    obj |-> Value(JStr(<<"B", "o", "b", "2">>))],
   [chars |-> <<"1", " ", "+", " ", "2">>,
    obj |-> BinOp("Add", Value(JInt(1)), Value(JInt(2)))],
   [chars |-> <<"2", " ", "+", " ", "3", " ", "*", " ", "2">>,
    obj |-> BinOp("Add", Value(JInt(2)), BinOp("Mul", Value(JInt(3)), Value(JInt(2))))],
   [chars |-> <<"x", "s">>,
    obj |-> Variable("xs")],
   [chars |-> <<"x", "s", "[", "t", "r", "u", "e", "]">>,
    obj |-> ArrayAccess(Variable("xs"), Value(JBool(TRUE)))]}

ChainFilters ==
  {[chars |-> <<"u", "p", "p", "e", "r", "c", "a", "s", "e">>,
    name |-> "uppercase", arguments |-> <<>>],
   [chars |-> <<"s", "u", "b", "s", "t", "r", ":", " ", "0", ",", " ", "3">>,
    name |-> "substr", arguments |-> <<Value(JInt(0)), Value(JInt(3))>>],
   [chars |-> <<"m", "u", "l", ":", " ", "2">>,
    name |-> "mul", arguments |-> <<Value(JInt(2))>>],
   [chars |-> <<"m", "u", "l", ":", " ", "x">>,
    name |-> "mul", arguments |-> <<Variable("x")>>],
   [chars |-> <<"n", "o", "f", "i", "l", "t", "e", "r">>,
    name |-> "nofilter", arguments |-> <<>>],
   [chars |-> <<"m", "u", "l", ":", " ", "x", "s", "[", "t", "r", "u", "e", "]">>,
    name |-> "mul", arguments |-> <<ArrayAccess(Variable("xs"), Value(JBool(TRUE)))>>],
   [chars |-> <<"s", "u", "b", "s", "t", "r", ":", " ", "x", ".", "s", "i", "z", "e", ",", " ", "1">>,
    name |-> "substr", arguments |-> <<MemberAccess(Variable("x"), "size"), Value(JInt(1))>>]}

RECURSIVE ChainSource(_)
\* the characters of ` | f1 | ... | fk`
ChainSource(chain) ==
  IF chain = <<>> THEN <<>>
  ELSE <<" ", "|", " ">> \o Head(chain).chars \o ChainSource(Tail(chain))

\* the scopes of a render of the "main" template with x = 7 and xs = [1, 2]
ChainScopes ==
  PushScope([reset.scopes EXCEPT ![1].data = DataWith(Arr(2))], "FileScope", "main")

InitPipe ==
  /\ phase = "idle"
  /\ input = [template |-> Template(<<>>), data |-> EmptyData]
  /\ m_result = <<>>
  /\ m_errors = <<>>
  /\ flags = 0
  /\ scopes = ChainScopes
  /\ cstack = <<>>
  /\ trace = <<>>
  /\ \E e \in ChainHeads, chain \in SeqsUpTo(ChainFilters, MaxFilters) :
       bx = [st |-> "source", head |-> e, chain |-> chain,
             document |-> e.chars \o ChainSource(chain), result |-> [st |-> "none"]]

\* tokenizer().tokenize(StringView(&document(), pos, endpos - pos))
TokenizeChain ==
  /\ bx.st = "source"
  /\ bx' = [bx EXCEPT !.st = "tokens",
                      !.result = tokenize(bx.document, 0, Len(bx.document))]
  /\ UNCHANGED <<phase, input, m_result, m_errors, flags, scopes, cstack, trace>>

\* Parser::parseObject(tokens)
ParseChain ==
  /\ bx.st = "tokens" /\ bx.result.st = "ok"
  /\ \E junk \in JunkInfos :
       bx' = [bx EXCEPT !.st = "parsed",
                        !.result = parseObject(bx.result.tokens, junk)]
  /\ UNCHANGED <<phase, input, m_result, m_errors, flags, scopes, cstack, trace>>

\* Renderer::eval of the parsed object
EvalChain ==
  /\ bx.st = "parsed" /\ bx.result.st = "ok"
  /\ \E build \in Builds :
       bx' = [bx EXCEPT !.st = "evaluated",
                        !.result = eval(bx.result.obj, scopes, build)]
  /\ UNCHANGED <<phase, input, m_result, m_errors, flags, scopes, cstack, trace>>

NextPipe == TokenizeChain \/ ParseChain \/ EvalChain

SpecPipe == InitPipe /\ [][NextPipe]_vars


(***************************************************************************)
(* Parser.  The parser's state is the record p of its members: document,   *)
(* mPosition (0-based), mNodes and mStack, the open block tags with the    *)
(* body collected so far, innermost last.                                  *)
(***************************************************************************)
Comment == [k |-> "Comment"]
Newline == [k |-> "Newline"]

\* StringBackend::normalize
normalize(document) == document

Continues(p) == [st |-> "ok", parser |-> p]

\* a variant that appends to the top-level list whatever the stack holds
dispatchNode_toTopLevel(p, n) == [p EXCEPT !.mNodes = Append(@, n)]

\* Parser::dispatchNode
dispatchNode(p, n) ==
  IF p.mStack = <<>> THEN [p EXCEPT !.mNodes = Append(@, n)]
  ELSE LET top == p.mStack[Len(p.mStack)]
       IN [p EXCEPT !.mStack[Len(p.mStack)] =
             IF top.k = "If"
               THEN [top EXCEPT !.blocks[Len(top.blocks)].body = Append(@, n)]
             ELSE [top EXCEPT !.body = Append(@, n)]]

\* a variant of the test that accepts any open block
stack_top_is_any(stack, kind) == stack # <<>>

\* !(stack().empty() || !stack().back()->is<kind>())
stack_top_is(stack, kind) == stack # <<>> /\ stack[Len(stack)].k = kind

\* a variant that takes the block off the stack and drops it
close_block_dropping(p) == [p EXCEPT !.mStack = SubSeq(@, 1, Len(@) - 1)]

\* vec::take_last(mStack) followed by dispatchNode(node)
close_block(p) ==
  dispatchNode([p EXCEPT !.mStack = SubSeq(@, 1, Len(@) - 1)], p.mStack[Len(p.mStack)])

\* Parser::process_tag_assign
process_tag_assign(p, keyword, tokens, junk) ==
  IF Len(tokens) < 3 THEN Undefined
  ELSE LET name == tokens[1]
           rest == SubSeq(tokens, 3, Len(tokens))
           parent_scope == toString(rest[Len(rest)]) = "parent_scope"
           global == ~parent_scope /\ toString(rest[Len(rest)]) = "global"
       IN Then(parseObject(IF parent_scope \/ global
                             THEN SubSeq(rest, 1, Len(rest) - 1) ELSE rest, junk),
               LAMBDA expr :
                 Continues(dispatchNode(p,
                   Assign(toString(name), expr.obj, parent_scope, global))))

\* Parser::process_tag_if
process_tag_if(p, keyword, tokens, junk) ==
  Then(parseObject(tokens, junk), LAMBDA cond :
    Continues([p EXCEPT !.mStack = Append(@, If(<<Block(cond.obj, <<>>)>>))]))

\* Parser::process_tag_elsif
process_tag_elsif(p, keyword, tokens, junk) ==
  IF ~stack_top_is(p.mStack, "If") THEN ParserException(keyword.off, "Unexpected 'elsif' tag")
  ELSE Then(parseObject(tokens, junk), LAMBDA cond :
         Continues([p EXCEPT !.mStack[Len(p.mStack)].blocks =
                               Append(@, Block(cond.obj, <<>>))]))

\* Parser::process_tag_else, on the parser
process_tag_else_tag(p, keyword) ==
  IF ~stack_top_is(p.mStack, "If") THEN ParserException(keyword.off, "Unexpected 'else' tag")
  ELSE Continues([p EXCEPT !.mStack[Len(p.mStack)].blocks =
                              Append(@, process_tag_else(<<>>))])

\* Parser::process_tag_endif
process_tag_endif(p, keyword) ==
  IF ~stack_top_is(p.mStack, "If") THEN ParserException(keyword.off, "Unexpected 'endif' tag")
  ELSE Continues(close_block(p))

\* Parser::process_tag_for
process_tag_for(p, keyword, tokens, junk) ==
  IF Len(tokens) < 2 THEN Undefined
  ELSE IF toString(tokens[2]) # "in" THEN ParserException(keyword.off, "Expected token 'in'")
  ELSE Then(parseObject(SubSeq(tokens, 3, Len(tokens)), junk), LAMBDA container :
         Continues([p EXCEPT !.mStack =
                      Append(@, For(toString(tokens[1]), container.obj, <<>>))]))

\* Parser::process_tag_endfor
process_tag_endfor(p, keyword) ==
  IF ~stack_top_is(p.mStack, "For") THEN ParserException(keyword.off, "Unexpected 'endfor' tag")
  ELSE Continues(close_block(p))

\* Parser::process_tag_capture
process_tag_capture(p, keyword, tokens) ==
  IF tokens = <<>> THEN Undefined
  ELSE Continues([p EXCEPT !.mStack = Append(@, Capture(toString(tokens[1]), <<>>))])

\* Parser::process_tag_endcapture
process_tag_endcapture(p, keyword) ==
  IF ~stack_top_is(p.mStack, "Capture")
    THEN ParserException(keyword.off, "Unexpected 'endcapture' tag")
  ELSE Continues(close_block(p))

\* result.objects[name] = obj, the objects kept in the order they were first named
SetObject(objects, name, obj) ==
  IF \E j \in 1..Len(objects) : objects[j].name = name
    THEN [j \in 1..Len(objects) |->
            IF objects[j].name = name THEN [name |-> name, value |-> obj] ELSE objects[j]]
  ELSE Append(objects, [name |-> name, value |-> obj])

\* the first token that reads "and", or 0
FirstAnd(tokens) ==
  LET hits == {j \in 1..Len(tokens) : toString(tokens[j]) = "and"}
  IN IF hits = {} THEN 0 ELSE CHOOSE j \in hits : \A h \in hits : j <= h

RECURSIVE IncludeParser_parse(_, _, _)
\* IncludeParser::parse: name = expression { and name = expression }
IncludeParser_parse(tokens, objects, junk) ==
  IF tokens = <<>> THEN [st |-> "ok", objects |-> objects]
  ELSE IF Len(tokens) < 2
    THEN ParserException(tokens[Len(tokens)].off, "unexpected end of input")
  ELSE IF toString(tokens[2]) # "="
    THEN ParserException(tokens[2].off, "expected '=' after variable name in 'include'")
  ELSE LET rest == SubSeq(tokens, 3, Len(tokens))
           j == FirstAnd(rest)
           buffer == IF j = 0 THEN rest ELSE SubSeq(rest, 1, j - 1)
       IN Then(parseObject(buffer, junk), LAMBDA obj :
            IncludeParser_parse(IF j = 0 THEN <<>> ELSE SubSeq(rest, j + 1, Len(rest)),
                                SetObject(objects, toString(tokens[1]), obj.obj), junk))

\* Parser::process_tag_include
process_tag_include(p, keyword, tokens, junk) ==
  IF tokens = <<>>
    THEN ParserException(keyword.off, "'include' should provide a template name")
  ELSE IF Len(tokens) = 1 THEN Continues(dispatchNode(p, Include(toString(tokens[1]), <<>>)))
  ELSE IF toString(tokens[2]) # "with"
    THEN ParserException(tokens[2].off, "expected 'with' keyword after 'include' name")
  ELSE Then(IncludeParser_parse(SubSeq(tokens, 3, Len(tokens)), <<>>, junk), LAMBDA objs :
         Continues(dispatchNode(p, Include(toString(tokens[1]), objs.objects))))

\* Parser::processTag
processTag(p, tokens, junk) ==
  IF tokens = <<>> THEN Undefined
  ELSE LET tok == Head(tokens)
           name == toString(tok)
           rest == Tail(tokens)
       IN CASE name = "assign" -> process_tag_assign(p, tok, rest, junk)
            [] name = "if" -> process_tag_if(p, tok, rest, junk)
            [] name = "elsif" -> process_tag_elsif(p, tok, rest, junk)
            [] name = "else" -> process_tag_else_tag(p, tok)
            [] name = "endif" -> process_tag_endif(p, tok)
            [] name = "for" -> process_tag_for(p, tok, rest, junk)
            [] name = "break" -> Continues(dispatchNode(p, Break))
            [] name = "continue" -> Continues(dispatchNode(p, Continue))
            [] name = "endfor" -> process_tag_endfor(p, tok)
            [] name = "comment" -> Continues(dispatchNode(p, Comment))
            [] name = "eject" -> Continues(dispatchNode(p, Eject))
            [] name = "discard" -> Continues(dispatchNode(p, Discard))
            [] name = "include" -> process_tag_include(p, tok, rest, junk)
            [] name = "capture" -> process_tag_capture(p, tok, rest)
            [] name = "endcapture" -> process_tag_endcapture(p, tok)
            [] name = "newline" -> Continues(dispatchNode(p, Newline))
            [] OTHER -> ParserException(tok.off, "Unknown tag name")

\* std::string::find(two characters, from) on the document: the index, or -1
find_pair(doc, c1, c2, from) ==
  LET hits == {k \in from..(Len(doc) - 2) : charAt(doc, k) = c1 /\ charAt(doc, k + 1) = c2}
  IN IF hits = {} THEN -1 ELSE CHOOSE k \in hits : \A h \in hits : k <= h

\* a variant that looks for the closer from the second byte of the opener
closer_from_inside_opener(pos) == pos + 1

\* pos = pos + 2: the closer is looked for after the opener
closer_from(pos) == pos + 2

\* a variant that leaves the lone '{' out of the text node
brace_text_dropped(doc, position, pos) == SubSeq(doc, position + 1, pos)

\* std::string(begin() + position(), begin() + (pos + 1)): the lone '{'
brace_text(doc, position, pos) == SubSeq(doc, position + 1, pos + 1)

\* Parser::readNode up to the span: what starts at the position
node_span(doc, position) ==
  LET pos == find_char(doc, "{", position)
  IN IF pos = -1 \/ pos = Len(doc) - 1 THEN [kind |-> "rest"]
     ELSE IF pos # position THEN [kind |-> "text", pos |-> pos]
     ELSE IF charAt(doc, pos + 1) = "{"
       THEN [kind |-> "object", from |-> closer_from(pos),
             endpos |-> find_pair(doc, "}", "}", closer_from(pos))]
     ELSE IF charAt(doc, pos + 1) = "%"
       THEN [kind |-> "tag", from |-> closer_from(pos),
             endpos |-> find_pair(doc, "%", "}", closer_from(pos))]
     ELSE [kind |-> "brace", pos |-> pos]

\* Parser::readNode
readNode(p, junk) ==
  LET doc == p.document
      position == p.mPosition
      s == node_span(doc, position)
  IN CASE s.kind = "rest" ->
            Continues(dispatchNode([p EXCEPT !.mPosition = Len(doc)],
                                   Text(SubSeq(doc, position + 1, Len(doc)))))
       [] s.kind = "text" ->
            Continues(dispatchNode([p EXCEPT !.mPosition = s.pos],
                                   Text(SubSeq(doc, position + 1, s.pos))))
       [] s.kind = "brace" ->
            Continues(dispatchNode([p EXCEPT !.mPosition = s.pos + 1],
                                   Text(brace_text(doc, position, s.pos))))
       [] s.kind = "object" ->
            IF s.endpos = -1
              THEN ParserException(s.from, "Could not match '{{' with a closing '}}'")
            ELSE Then(tokenize(doc, s.from, s.endpos - s.from), LAMBDA t :
                   Then(parseObject(t.tokens, junk), LAMBDA obj :
                     Continues([dispatchNode(p, obj.obj)
                                  EXCEPT !.mPosition = s.endpos + 2])))
       [] s.kind = "tag" ->
            IF s.endpos = -1
              THEN ParserException(s.from, "Could not match '{%' with a closing '%}'")
            ELSE Then(tokenize(doc, s.from, s.endpos - s.from), LAMBDA t :
                   Then(processTag(p, t.tokens, junk), LAMBDA r :
                     Continues([r.parser EXCEPT !.mPosition = s.endpos + 2])))


(***************************************************************************)
(* The documents handed to Parser::parse: every string of up to MaxChars   *)
(* characters over the scanner's alphabet, every sequence of up to MaxTags *)
(* block-structure pieces, single tags and objects (well-formed and not),  *)
(* and objects and tags around every span of up to MaxSpan characters over *)
(* the tokenizer's alphabet, followed by text that may hold a quote.       *)
(***************************************************************************)
MaxChars == 5
MaxTags == 3
MaxSpan == 3

RECURSIVE Flatten(_)
Flatten(pieces) == IF pieces = <<>> THEN <<>> ELSE Head(pieces) \o Flatten(Tail(pieces))

ScanChars == {"{", "%", "}", "a", " "}
ScanDocs == SeqsUpTo(ScanChars, MaxChars)

BlockPieces ==
  {<<"{", "%", "i", "f", " ", "x", "%", "}">>,
   <<"{", "%", "e", "l", "s", "i", "f", " ", "y", "%", "}">>,
   <<"{", "%", "e", "l", "s", "e", "%", "}">>,
   <<"{", "%", "e", "n", "d", "i", "f", "%", "}">>,
   <<"{", "%", "f", "o", "r", " ", "x", " ", "i", "n", " ", "x", "s", "%", "}">>,
   <<"{", "%", "e", "n", "d", "f", "o", "r", "%", "}">>,
   <<"{", "%", "c", "a", "p", "t", "u", "r", "e", " ", "c", "%", "}">>,
   <<"{", "%", "e", "n", "d", "c", "a", "p", "t", "u", "r", "e", "%", "}">>,
   <<"a">>,
   <<"{", "{", "x", "}", "}">>}
BlockDocs == {Flatten(d) : d \in SeqsUpTo(BlockPieces, MaxTags)}

TagDocs ==
  {<<"{", "%", "a", "s", "s", "i", "g", "n", " ", "y", " ", "=", " ", "1", "%", "}">>,
   <<"{", "%", "a", "s", "s", "i", "g", "n", " ", "y", " ", "=", " ", "x", " ", "g", "l", "o", "b", "a", "l", "%", "}">>,
   <<"{", "%", "a", "s", "s", "i", "g", "n", " ", "y", " ", "=", " ", "x", " ", "p", "a", "r", "e", "n", "t", "_", "s", "c", "o", "p", "e", "%", "}">>,
   <<"{", "%", "a", "s", "s", "i", "g", "n", " ", "y", " ", "=", " ", "g", "l", "o", "b", "a", "l", " ", "p", "a", "r", "e", "n", "t", "_", "s", "c", "o", "p", "e", "%", "}">>,
   <<"{", "%", "a", "s", "s", "i", "g", "n", " ", "y", " ", "=", " ", "g", "l", "o", "b", "a", "l", "%", "}">>,
   <<"{", "%", "a", "s", "s", "i", "g", "n", " ", "y", "%", "}">>,
   <<"{", "%", "b", "r", "e", "a", "k", "%", "}">>,
   <<"{", "%", "c", "o", "n", "t", "i", "n", "u", "e", "%", "}">>,
   <<"{", "%", "e", "j", "e", "c", "t", "%", "}">>,
   <<"{", "%", "d", "i", "s", "c", "a", "r", "d", "%", "}">>,
   <<"{", "%", "c", "o", "m", "m", "e", "n", "t", "%", "}">>,
   <<"{", "%", "n", "e", "w", "l", "i", "n", "e", "%", "}">>,
   <<"{", "%", "i", "n", "c", "l", "u", "d", "e", " ", "b", "o", "d", "y", "%", "}">>,
   <<"{", "%", "i", "n", "c", "l", "u", "d", "e", " ", "b", "o", "d", "y", " ", "w", "i", "t", "h", " ", "v", " ", "=", " ", "x", " ", "a", "n", "d", " ", "w", " ", "=", " ", "1", "%", "}">>,
   <<"{", "%", "i", "n", "c", "l", "u", "d", "e", " ", "b", "o", "d", "y", " ", "v", "%", "}">>,
   <<"{", "%", "i", "n", "c", "l", "u", "d", "e", "%", "}">>,
   <<"{", "%", "f", "o", "r", " ", "x", " ", "o", "f", " ", "x", "s", "%", "}">>,
   <<"{", "%", "f", "o", "r", "%", "}">>,
   <<"{", "%", "f", "o", "r", " ", "x", "%", "}">>,
   <<"{", "%", "c", "a", "p", "t", "u", "r", "e", "%", "}">>,
   <<"{", "%", "i", "f", "%", "}">>,
   <<"{", "%", "n", "o", "t", "h", "i", "n", "g", "%", "}">>,
   <<"{", "{", " ", "'", "B", "o", "b", "2", "'", " ", "|", " ", "s", "u", "b", "s", "t", "r", ":", " ", "0", ",", " ", "3", " ", "|", " ", "u", "p", "p", "e", "r", "c", "a", "s", "e", " ", "}", "}">>,
   <<"{", "{", " ", "x", " ", "|", " ", "3", " ", "}", "}">>,
   <<"{", "{", " ", "9", "9", "9", "9", "9", "9", "9", "9", "9", "9", "9", " ", "}", "}">>,
   <<"{", "{", " ", "x", ".", "s", "i", "z", "e", " ", "+", " ", "x", "s", "[", "0", "]", " ", "}", "}">>}

SpanChars == {"'", "\"", "a", "#", " ", "=", "1"}
SpanOpeners == {<<<<"{", "{">>, <<"}", "}">>>>, <<<<"{", "%">>, <<"%", "}">>>>}
SpanTails == {<<>>, <<"'">>, <<" ", "\"", "a", "\"">>}
SpanDocs ==
  {o[1] \o s \o o[2] \o t :
     o \in SpanOpeners, s \in SeqsUpTo(SpanChars, MaxSpan), t \in SpanTails}

Docs == ScanDocs \cup BlockDocs \cup TagDocs \cup SpanDocs

\* the parser after mDocument = normalize(document), mNodes.clear(), mStack.clear()
ParserAt(document) ==
  [document |-> normalize(document), mPosition |-> 0, mNodes |-> <<>>, mStack |-> <<>>]

NoError == [off |-> -1, msg |-> ""]
NoLex == [st |-> "none"]

InitParse ==
  /\ phase = "idle"
  /\ input = [template |-> Template(<<>>), data |-> EmptyData]
  /\ m_result = <<>>
  /\ m_errors = <<>>
  /\ flags = 0
  /\ scopes = reset.scopes
  /\ cstack = <<>>
  /\ trace = <<>>
  /\ \E document \in Docs :
       bx = [st |-> "parsing", source |-> document, parser |-> ParserAt(document),
             at |-> 0, span |-> [kind |-> "none"], lex |-> NoLex, tag |-> "",
             before |-> <<>>, error |-> NoError]

\* a variant of the loop test that never ends the loop
Parser_atEnd_never(p) == FALSE

\* Parser::atEnd
Parser_atEnd(p) == p.mPosition = Len(p.document)

\* what becomes of a step whose behaviour is undefined: the process dies, or
\* an exception with an arbitrary offset is thrown
UndefinedOutcomes == {"crashed", "error"}

\* how a call of the parser ends for its caller
Outcome(r, undefined) ==
  CASE r.st = "ok" -> "parsing"
    [] r.st = "error" -> "error"
    [] r.st = "undefined" -> undefined
    [] r.st = "terminate" -> "crashed"
    [] r.st = "out_of_range" -> "out_of_range"

\* the tokens of the span that starts at the position, if it has a closer
SpanTokens(p) ==
  LET s == node_span(p.document, p.mPosition)
  IN IF s.kind \in {"object", "tag"} /\ s.endpos # -1
       THEN tokenize(p.document, s.from, s.endpos - s.from)
     ELSE NoLex

\* the record of a call of readNode that ended as r on the span s with tokens lex
ReadNodeRecord(r, s, lex, undefined) ==
  [bx EXCEPT
     !.st = Outcome(r, undefined),
     !.parser = IF r.st = "ok" THEN r.parser ELSE @,
     !.at = bx.parser.mPosition,
     !.span = [kind |-> s.kind],
     !.lex = lex,
     !.tag = IF s.kind = "tag" /\ lex.st = "ok" /\ lex.tokens # <<>>
               THEN toString(lex.tokens[1]) ELSE "",
     !.before = bx.parser.mStack,
     !.error = IF r.st = "error" THEN [off |-> r.off, msg |-> r.msg] ELSE NoError]

\* one call of readNode in the loop of Parser::parse
ReadNode ==
  /\ bx.st = "parsing" /\ ~Parser_atEnd(bx.parser)
  /\ \E junk \in JunkInfos, undefined \in UndefinedOutcomes :
       bx' = ReadNodeRecord(readNode(bx.parser, junk),
                            node_span(bx.parser.document, bx.parser.mPosition),
                            SpanTokens(bx.parser), undefined)
  /\ UNCHANGED <<phase, input, m_result, m_errors, flags, scopes, cstack, trace>>

\* Parser::parse returns mNodes
ParseReturn ==
  /\ bx.st = "parsing" /\ Parser_atEnd(bx.parser)
  /\ bx' = [bx EXCEPT !.st = "returned"]
  /\ UNCHANGED <<phase, input, m_result, m_errors, flags, scopes, cstack, trace>>

\* Template::render of the parsed template, followed here for templates of
\* text and object nodes
RenderParsed ==
  /\ bx.st = "returned"
  /\ \A j \in 1..Len(bx.parser.mNodes) :
       bx.parser.mNodes[j].k \in {"Text"} \cup ObjectKinds
  /\ \E data \in PlainData \cup {EmptyData} :
       render([nodes |-> bx.parser.mNodes, filePath |-> ""], data)

NextParse ==
  \/ ReadNode
  \/ ParseReturn
  \/ RenderParsed
  \/ process_text
  \/ process_object
  \/ render_ret
  \/ render_loop_end
  \/ render_return

SpecParse == InitParse /\ [][NextParse]_vars


(***************************************************************************)
(* Several calls of Renderer::render on one Renderer.  When a call has     *)
(* returned, the caller keeps the string and the diagnostics (errors()),   *)
(* the renderer keeps whatever the call left in its members, and the next  *)
(* call may be made.  bx is the list of what the calls returned.           *)
(***************************************************************************)
MaxRenders == 2

AgainInputs ==
  {<<Template(<<Break, TextA>>), DataWith(Arr(1))>>,
   <<Template(<<Continue>>), DataWith(Arr(1))>>,
   <<Template(<<TextA, Eject, TextB>>), DataWith(Arr(1))>>,
   <<Template(<<AssignGlobal, AssignLocal>>), DataWith(Arr(1))>>,
   <<Template(<<EX, EY>>), DataWith(Arr(1))>>,
   <<Template(<<TextA, EBad>>), DataWith(Arr(1))>>,
   <<Template(<<For("x", Variable("xs"), <<EX>>), EX>>), DataWith(Arr(2))>>,
   <<Template(<<For("x", Variable("xs"), <<IfThen(Gt1("x"), <<Break>>), EX>>)>>),
     DataWith(Arr(2))>>}

InitAgain ==
  /\ phase = "idle"
  /\ input = [template |-> Template(<<>>), data |-> EmptyData]
  /\ m_result = <<>>
  /\ m_errors = <<>>
  /\ flags = 0
  /\ scopes = reset.scopes
  /\ cstack = <<>>
  /\ trace = <<>>
  /\ bx = <<>>

RenderAgain == \E in \in AgainInputs : render(in[1], in[2])

\* the call has returned: the caller keeps the string and errors()
Keep ==
  /\ phase = "done"
  /\ Len(bx) < MaxRenders
  /\ bx' = Append(bx, [input |-> input, result |-> m_result, errors |-> m_errors])
  /\ phase' = "idle"
  /\ UNCHANGED <<input, m_result, m_errors, flags, scopes, cstack, trace>>

NextAgain ==
  \/ RenderAgain
  \/ Keep
  \/ process_text
  \/ process_object
  \/ visitTag_Assign
  \/ visitTag_Break
  \/ visitTag_Continue
  \/ visitTag_Eject
  \/ process_nodes_ret
  \/ process_nodes_end
  \/ visitTag_For
  \/ for_head
  \/ for_after
  \/ visitTag_If
  \/ if_head
  \/ if_after
  \/ render_ret
  \/ render_loop_end
  \/ render_return

SpecAgain == InitAgain /\ [][NextAgain]_vars


(***************************************************************************)
(* Assign tags from the document to the scope stack: a document made of up *)
(* to MaxPieces assign tags, loops, includes and objects is parsed by      *)
(* Parser::parse and the template is rendered.  Context::parentFileScope   *)
(* is not followed where no file scope lies below the current one.         *)
(***************************************************************************)
MaxPieces == 3

AssignPieces ==
  {<<"{", "%", "a", "s", "s", "i", "g", "n", " ", "y", " ", "=", " ", "1", "%", "}">>,
   <<"{", "%", "a", "s", "s", "i", "g", "n", " ", "y", " ", "=", " ", "x", " ", "g", "l", "o", "b", "a", "l", "%", "}">>,
   <<"{", "%", "a", "s", "s", "i", "g", "n", " ", "y", " ", "=", " ", "x", " ", "p", "a", "r", "e", "n", "t", "_", "s", "c", "o", "p", "e", "%", "}">>,
   <<"{", "%", "a", "s", "s", "i", "g", "n", " ", "y", " ", "=", " ", "g", "l", "o", "b", "a", "l", " ", "p", "a", "r", "e", "n", "t", "_", "s", "c", "o", "p", "e", "%", "}">>,
   <<"{", "%", "f", "o", "r", " ", "x", " ", "i", "n", " ", "x", "s", "%", "}">>,
   <<"{", "%", "e", "n", "d", "f", "o", "r", "%", "}">>,
   <<"{", "%", "i", "n", "c", "l", "u", "d", "e", " ", "p", "a", "r", "%", "}">>,
   <<"{", "{", "y", "}", "}">>}
AssignDocs == {Flatten(d) : d \in SeqsUpTo(AssignPieces, MaxPieces)}

RECURSIVE HasParentAssign(_)
\* an assign with parent_scope among the nodes or in a for body
HasParentAssign(nodes) ==
  \E j \in 1..Len(nodes) :
    \/ nodes[j].k = "Assign" /\ nodes[j].parent_scope
    \/ nodes[j].k = "For" /\ HasParentAssign(nodes[j].body)

InitAssign ==
  /\ phase = "idle"
  /\ input = [template |-> Template(<<>>), data |-> EmptyData]
  /\ m_result = <<>>
  /\ m_errors = <<>>
  /\ flags = 0
  /\ scopes = reset.scopes
  /\ cstack = <<>>
  /\ trace = <<>>
  /\ \E document \in AssignDocs :
       bx = [st |-> "parsing", source |-> document, parser |-> ParserAt(document),
             at |-> 0, span |-> [kind |-> "none"], lex |-> NoLex, tag |-> "",
             before |-> <<>>, error |-> NoError]

\* Template::render of the parsed template
RenderAssigned ==
  /\ bx.st = "returned"
  /\ ~HasParentAssign(bx.parser.mNodes)
  /\ \E data \in LoopData : render(Template(bx.parser.mNodes), data)

NextAssign ==
  \/ ReadNode
  \/ ParseReturn
  \/ RenderAssigned
  \/ process_object
  \/ visitTag_Assign
  \/ process_nodes_ret
  \/ process_nodes_end
  \/ visitTag_For
  \/ for_head
  \/ for_after
  \/ visitTag_Include
  \/ include_after
  \/ render_ret
  \/ render_loop_end
  \/ render_return

SpecAssign == InitAssign /\ [][NextAssign]_vars


(***************************************************************************)
(* The binary operators: render of `{{ a op b }}` for op among and, or,    *)
(* xor, +, -, *, /, over operands of every type (falsy and truthy), that   *)
(* raise, or that divide by zero.                                          *)
(***************************************************************************)
ENoMember == MemberAccess(EX, "y")
ENoArray == ArrayAccess(EX, Value(JInt(0)))

BinOpOperands ==
  {Value(JBool(TRUE)), Value(JBool(FALSE)), Value(JInt(0)), Value(JInt(2)),
   Value(JStr(<<>>)), Variable("xs"), EY, ENoMember, ENoArray, EDiv}

BinOpOperators == {"And", "Or", "Xor", "Add", "Sub", "Mul", "Div"}

BinOpInputs ==
  {<<Template(<<BinOp(op, a, b)>>), d>> :
     op \in BinOpOperators, a \in BinOpOperands, b \in BinOpOperands, d \in PlainData}

InitBinOp ==
  /\ phase = "idle"
  /\ input = [template |-> Template(<<>>), data |-> EmptyData]
  /\ m_result = <<>>
  /\ m_errors = <<>>
  /\ flags = 0
  /\ scopes = reset.scopes
  /\ cstack = <<>>
  /\ trace = <<>>
  /\ bx = <<>>

RenderBinOp == \E in \in BinOpInputs : render(in[1], in[2])

NextBinOp ==
  \/ RenderBinOp
  \/ process_object
  \/ render_ret
  \/ render_loop_end
  \/ render_return

SpecBinOp == InitBinOp /\ [][NextBinOp]_vars


(***************************************************************************)
(* Reading the history.  A node entry is written when process(n) is        *)
(* entered for a node; the other entries are events of block handlers.     *)
(***************************************************************************)
NodeKinds ==
  ObjectKinds \cup {"Text", "Assign", "For", "If", "Capture", "Include",
                    "Break", "Continue", "Eject", "Discard"}
IsNode(e) == e.k \in NodeKinds
TopLevel(e) == IsNode(e) /\ e.par = 0
Entries == 1..Len(trace)

\* C1: render lets no exception or crash escape: whatever fails while a node is
\* evaluated is recorded as a diagnostic and render returns its string
C1_NothingEscapesRender ==
  phase # "crashed"

\* C2: when the evaluation of top-level node i raises an EvaluationError, the
\* diagnostic is recorded, the marker is written, and top-level node i+1 is
\* processed next
C2_SiblingsAfterError ==
  phase = "done" =>
    \A j \in Entries :
      (trace[j].k = "throw" /\ trace[j].par = 0 /\ ~trace[j - 1].last) =>
        /\ m_errors # <<>>
        /\ \E m \in Entries :
             m > j /\ TopLevel(trace[m]) /\ trace[m].idx = trace[j - 1].idx + 1

\* C3: once any control flag is set after a top-level node, no further
\* top-level node is processed
C3_TopLevelStopsOnAnyFlag ==
  \A j \in Entries : (TopLevel(trace[j]) /\ trace[j].idx > 1) => trace[j].flags = 0

\* C4: after an eject tag has been executed no later node is processed, and at
\* the end of render Eject with Discard gives the empty string while Eject
\* alone gives the output written so far
C4_EjectAbortsRender ==
  /\ \A j \in Entries : \A m \in Entries :
       (trace[j].k = "Eject" /\ m > j) => ~IsNode(trace[m])
  /\ phase = "done" =>
       LET r == trace[Len(trace)]
       IN HasFlag(r.flags, FlagEject) =>
            IF HasFlag(r.flags, FlagDiscard) THEN m_result = <<>>
            ELSE Len(m_result) = r.out


\* the innermost for loop an entry was logged in: the trace index of its for
\* tag, the iteration and the length of the collection
InLoop(e) == e.ctx # <<>>
Loop(e) == e.ctx[Len(e.ctx)]
\* e was logged inside the body of loop L, at any depth
Within(e, L) == \E q \in 1..Len(e.ctx) : e.ctx[q].for = L
WithinIter(e, L, i) == \E q \in 1..Len(e.ctx) : e.ctx[q].for = L /\ e.ctx[q].i = i
LoopEvent(e, L) == e.par = L /\ e.k \in {"iter", "endfor"}

\* what follows the end of the for tag logged at f, e being its endfor entry:
\* the next sibling of the tag, or the next turn of the directly enclosing loop
GoesOnAfter(f, e) ==
  LET nx == trace[e + 1]
  IN IF ~trace[f].last
       THEN /\ IsNode(nx) /\ nx.par = trace[f].par /\ nx.blk = trace[f].blk
            /\ nx.idx = trace[f].idx + 1 /\ nx.ctx = trace[f].ctx
     ELSE (trace[f].par > 0 /\ trace[trace[f].par].k = "For") =>
            /\ nx.par = trace[f].par
            /\ IF Loop(trace[f]).i + 1 < Loop(trace[f]).n
                 THEN nx.k = "iter" /\ nx.idx = Loop(trace[f]).i + 1
               ELSE nx.k = "endfor" /\ nx.val.why = "end"

BreakEndsInnermost(j) ==
  LET L == Loop(trace[j]).for
  IN /\ \A m \in Entries :
          m > j => /\ ~(IsNode(trace[m]) /\ Within(trace[m], L))
                   /\ ~(trace[m].k = "iter" /\ trace[m].par = L)
     /\ phase = "done" => \E e \in Entries : e > j /\ trace[e].k = "endfor" /\ trace[e].par = L
     /\ \A e \in Entries :
          (e > j /\ e < Len(trace) /\ trace[e].k = "endfor" /\ trace[e].par = L) =>
            GoesOnAfter(L, e)

ContinueSkipsIteration(j) ==
  LET L == Loop(trace[j]).for
      i == Loop(trace[j]).i
      n == Loop(trace[j]).n
      next == {m \in Entries : m > j /\ LoopEvent(trace[m], L)}
  IN /\ \A m \in Entries :
          m > j => ~(IsNode(trace[m]) /\ WithinIter(trace[m], L, i))
     /\ phase = "done" => next # {}
     /\ \A m \in next :
          (\A q \in next : m <= q) =>
            IF i + 1 < n THEN trace[m].k = "iter" /\ trace[m].idx = i + 1
            ELSE trace[m].k = "endfor" /\ trace[m].val.why = "end"

\* C5: a break in a for body ends only the innermost enclosing loop (what
\* follows the loop goes on), a continue skips the rest of the current
\* iteration and the same loop takes its next element
C5_BreakAndContinue ==
  \A j \in Entries :
    /\ (trace[j].k = "Break" /\ InLoop(trace[j])) => BreakEndsInnermost(j)
    /\ (trace[j].k = "Continue" /\ InLoop(trace[j])) => ContinueSkipsIteration(j)


\* the iterations logged so far for the for tag at trace index L
Iters(L) == {m \in Entries : trace[m].k = "iter" /\ trace[m].par = L}
IsArray(v) == v.t = "arr"

\* the body run logged at m is run number idx + 1 of its loop and binds the
\* loop variable and forloop as the handler must for that element
IterBinds(m) ==
  LET e == trace[m]
      N == Len(e.val.coll.a)
  IN /\ Cardinality({q \in Iters(e.par) : q < m}) = e.idx
     /\ e.idx < N
     /\ e.val.x = e.val.coll.a[e.idx + 1]
     /\ e.val.forloop = JObj([index |-> JInt(e.idx), first |-> JBool(e.idx = 0),
                              last |-> JBool(e.idx = N - 1)])
     /\ m < Len(trace) =>
          /\ IsNode(trace[m + 1]) /\ trace[m + 1].par = e.par /\ trace[m + 1].idx = 1
          /\ Loop(trace[m + 1]) = [for |-> e.par, i |-> e.idx, n |-> N]

\* a break of loop L itself or an eject anywhere in its body was executed
LoopCut(L, e) ==
  \E m \in Entries :
    /\ L < m /\ m < e
    /\ \/ trace[m].k = "Break" /\ InLoop(trace[m]) /\ Loop(trace[m]).for = L
       \/ trace[m].k = "Eject" /\ Within(trace[m], L)

\* C6: the body of a for over an array of length N runs once per element, in
\* order, with the loop variable and forloop.index/first/last of that element;
\* over an empty array or a non-array it never runs and nothing is written
C6_ForRunsOncePerElement ==
  /\ \A m \in Entries : trace[m].k = "iter" => IterBinds(m)
  /\ \A e \in Entries :
       trace[e].k = "endfor" =>
         LET L == trace[e].par
             c == trace[e].val.coll
             N == IF IsArray(c) THEN Len(c.a) ELSE 0
         IN /\ LoopCut(L, e) \/ Cardinality(Iters(L)) = N
            /\ N = 0 => /\ trace[e].out = trace[L].out
                        /\ \A m \in Entries : ~(IsNode(trace[m]) /\ Within(trace[m], L))


\* between the for tag logged at L and its end e, a tag of kind k wrote name
Wrote(k, L, e, name) ==
  \E m \in Entries : L < m /\ m < e /\ trace[m].k = k /\ trace[m].var = name

\* the scope stack is as deep after the for tag as before it, and name reads
\* as before unless a tag of one of the kinds wrote it in the body
RestoredAfter(e, kinds) ==
  LET L == trace[e].par
  IN /\ trace[e].depth = trace[L].depth
     /\ \/ trace[e].val.x = trace[L].val.x
        \/ \E k \in kinds : Wrote(k, L, e, trace[L].var)
     /\ \/ trace[e].val.forloop = trace[L].val.forloop
        \/ \E k \in kinds : Wrote(k, L, e, "forloop")

\* C7 as stated: after a for tag ends the loop frame is popped, the depth is
\* restored and the loop variable and forloop read as before the loop unless an
\* assign in the body wrote that name
C7_ShadowEndsWithLoop ==
  \A e \in Entries : trace[e].k = "endfor" => RestoredAfter(e, {"Assign"})

\* C7 amended: ... unless an assign or a capture in the body wrote that name
C7_ShadowEndsUnlessWritten ==
  \A e \in Entries : trace[e].k = "endfor" => RestoredAfter(e, {"Assign", "endcapture"})

\* a loop over a non-empty array shadowed the data's x, was left by a break,
\* and x reads 7 again
C7_Witness ==
  \E e \in Entries :
    /\ trace[e].k = "endfor" /\ trace[e].val.why = "break"
    /\ \E m \in Entries : trace[m].k = "Break" /\ Within(trace[m], trace[e].par)
    /\ trace[trace[e].par].var = "x"
    /\ trace[e].val.x = JInt(7)
    /\ \E m \in Iters(trace[e].par) : trace[m].val.x = JInt(1)


\* an assign with the global modifier wrote name
GlobalAssign(name) ==
  \E m \in Entries : trace[m].k = "Assign" /\ trace[m].var = name /\ trace[m].val.global

\* C8: throughout a render the scope stack is non-empty and its frame 0 is the
\* frame seeded with the caller's data: it is never popped or replaced, and
\* only an assign with the global modifier changes a member of it
C8_FrameZeroStays ==
  phase \in {"running", "done"} =>
    /\ Len(scopes) >= 1
    /\ scopes[1].kind = "GlobalScope"
    /\ \A name \in Names :
         scopes[1].data[name] = input.data[name] \/ GlobalAssign(name)
    /\ phase = "done" => Len(scopes) = 1

\* an error raised inside a for body of an included or nested block has
\* unwound the stack down to frame 0, which still holds the data
C8_Witness ==
  /\ phase = "done"
  /\ m_errors # <<>>
  /\ \E m \in Entries : trace[m].k = "throw" /\ trace[m].depth >= 3
  /\ \E m \in Entries : trace[m].k = "Assign" /\ ~trace[m].val.global
  /\ scopes = <<[ScopeData("GlobalScope", "") EXCEPT !.data = input.data]>>

\* the entries of the if tag logged at F
CondsOf(F) == {m \in Entries : trace[m].k = "cond" /\ trace[m].par = F}
Truthy(m) == evalCondition(trace[m].val.v)
BodyNodes(F) == {m \in Entries : IsNode(trace[m]) /\ trace[m].par = F}

\* C9: an if evaluates its conditions top to bottom and runs the body of the
\* first truthy block only; later conditions are not evaluated; with no truthy
\* condition no body runs and nothing is written; an else is a block whose
\* condition is the literal true
C9_IfRunsFirstTruthyBlock ==
  /\ \A m \in Entries :
       trace[m].k = "cond" =>
         LET F == trace[m].par
         IN /\ trace[m].blk = 1 + Cardinality({c \in CondsOf(F) : c < m})
            /\ \A c \in CondsOf(F) : c < m => ~Truthy(c)
            /\ (Truthy(m) /\ m < Len(trace)) =>
                 /\ IsNode(trace[m + 1]) /\ trace[m + 1].par = F
                 /\ trace[m + 1].blk = trace[m].blk /\ trace[m + 1].idx = 1
  /\ \A m \in Entries :
       (IsNode(trace[m]) /\ trace[m].par > 0 /\ trace[trace[m].par].k = "If") =>
         \E c \in CondsOf(trace[m].par) :
           c < m /\ trace[c].blk = trace[m].blk /\ Truthy(c)
  /\ \A e \in Entries :
       (trace[e].k = "endif" /\ \A c \in CondsOf(trace[e].par) : ~Truthy(c)) =>
         /\ Cardinality(CondsOf(trace[e].par)) = trace[trace[e].par].val.blocks
         /\ BodyNodes(trace[e].par) = {}
         /\ trace[e].out = trace[trace[e].par].out
  /\ process_tag_else(<<>>).condition = Value(JBool(TRUE))
  /\ eval(process_tag_else(<<>>).condition, scopes, FALSE) = Ok(JBool(TRUE))

\* an if of three blocks and an else whose second condition is the first
\* truthy one: its body ran, the third condition was never evaluated
C9_Witness ==
  \E e \in Entries :
    /\ trace[e].k = "endif" /\ trace[e].blk = 2
    /\ trace[trace[e].par].val.blocks = 4
    /\ Cardinality(CondsOf(trace[e].par)) = 2
    /\ BodyNodes(trace[e].par) # {}


(***************************************************************************)
(* The reference parser of C10: an operator-precedence (shift-reduce)      *)
(* parser over the table, left-associative; a smaller number binds         *)
(* tighter.                                                                *)
(***************************************************************************)
RefPrec ==
  [tok \in MapTexts |->
     CASE tok \in {"*", "/"} -> 1
       [] tok \in {"+", "-"} -> 2
       [] tok \in {"<", "<=", ">", ">="} -> 3
       [] tok \in {"==", "!=", "<>"} -> 4
       [] tok = "and" -> 5
       [] tok \in {"or", "xor"} -> 6]

RefName ==
  [tok \in MapTexts |->
     CASE tok = "*" -> "Mul" [] tok = "/" -> "Div" [] tok = "+" -> "Add"
       [] tok = "-" -> "Sub" [] tok = "<" -> "Less" [] tok = "<=" -> "Leq"
       [] tok = ">" -> "Greater" [] tok = ">=" -> "Geq" [] tok = "==" -> "Equal"
       [] tok \in {"!=", "<>"} -> "Inequal" [] tok = "and" -> "And"
       [] tok = "or" -> "Or" [] tok = "xor" -> "Xor"]

\* reduce: the top operator takes the two top trees
RefReduce(out, ops) ==
  LET n == Len(out)
  IN Append(SubSeq(out, 1, n - 2),
            BinOp(RefName[ops[Len(ops)]], out[n - 1], out[n]))

\* rest: the operators not yet read; ands: the operands after them
RECURSIVE RefParse(_, _, _, _)
RefParse(ands, rest, out, ops) ==
  IF ops # <<>> /\ (rest = <<>> \/ RefPrec[ops[Len(ops)]] <= RefPrec[Head(rest)])
    THEN RefParse(ands, rest, RefReduce(out, ops), SubSeq(ops, 1, Len(ops) - 1))
  ELSE IF rest = <<>> THEN out[1]
  ELSE RefParse(Tail(ands), Tail(rest), Append(out, Head(ands)), Append(ops, Head(rest)))

Reference(operands, operators) ==
  RefParse(Tail(operands), operators, <<Head(operands)>>, <<>>)

\* the leaves of a tree, left to right
RECURSIVE Leaves(_)
Leaves(tree) ==
  IF tree.k = "BinOp" THEN Leaves(tree.lhs) \o Leaves(tree.rhs) ELSE <<tree>>

\* the rightmost operator of numerically largest precedence
RootIndex(operators) ==
  CHOOSE r \in 1..Len(operators) :
    /\ \A q \in 1..Len(operators) : RefPrec[operators[q]] <= RefPrec[operators[r]]
    /\ \A q \in (r + 1)..Len(operators) : RefPrec[operators[q]] < RefPrec[operators[r]]

InTable(operators) == \A q \in 1..Len(operators) : operators[q] \in MapTexts

\* C10: on operators of the table buildExpr returns the tree of the reference
\* parser; its root is the rightmost operator of largest precedence, its left
\* and right subtrees hold the operands before and after that operator, and
\* its leaves in order are the operand list
C10_BuildExprIsReference ==
  (bx # <<>> /\ bx.st = "built" /\ InTable(bx.operators)) =>
    /\ bx.obj = Reference(bx.operands, bx.operators)
    /\ Leaves(bx.obj) = bx.operands
    /\ bx.operators # <<>> =>
         LET r == RootIndex(bx.operators)
         IN /\ bx.obj.operation = RefName[bx.operators[r]]
            /\ Leaves(bx.obj.lhs) = SubSeq(bx.operands, 1, r)
            /\ Leaves(bx.obj.rhs) = SubSeq(bx.operands, r + 1, Len(bx.operands))

\* a - b - c * d has been built as Sub(Sub(a, b), Mul(c, d))
C10_Witness ==
  /\ bx # <<>> /\ bx.st = "built"
  /\ bx.operators = <<"-", "-", "*">>
  /\ bx.obj = BinOp("Sub", BinOp("Sub", Operand(1), Operand(2)),
                    BinOp("Mul", Operand(3), Operand(4)))

(***************************************************************************)
(* C11: the source `e | f1 | ... | fk` parses to the filters nested from   *)
(* the left around the whole expression e, with nothing left over, and its *)
(* value is the one obtained by applying f1 to the value of e and each     *)
(* later filter to the result of the one before, the arguments of a filter *)
(* being evaluated in order, after its object and before its dispatch.     *)
(***************************************************************************)
RECURSIVE ChainTree(_, _)
ChainTree(obj, chain) ==
  IF chain = <<>> THEN obj
  ELSE LET f == chain[Len(chain)]
       IN Pipe(ChainTree(obj, SubSeq(chain, 1, Len(chain) - 1)), f.name, f.arguments)

RECURSIVE ArgumentValues(_, _)
\* the values of the arguments from the first to the last, or the first failure
ArgumentValues(arguments, done) ==
  IF arguments = <<>> THEN Ok(done)
  ELSE LET a == eval(Head(arguments), ChainScopes, FALSE)
       IN IF a.st # "ok" THEN a ELSE ArgumentValues(Tail(arguments), Append(done, a.v))

RECURSIVE ChainValue(_, _)
\* the filters applied from the first to the last to the result so far
ChainValue(sofar, chain) ==
  IF chain = <<>> \/ sofar.st # "ok" THEN sofar
  ELSE LET a == ArgumentValues(Head(chain).arguments, <<>>)
       IN ChainValue(IF a.st # "ok" THEN a
                     ELSE CustomRenderer_applyFilter(Head(chain).name, sofar.v, a.v),
                     Tail(chain))

C11_FilterChainLeftToRight ==
  /\ bx.st = "tokens" => bx.result.st = "ok"
  /\ bx.st = "parsed" => bx.result = Parsed(ChainTree(bx.head.obj, bx.chain), <<>>)
  /\ bx.st = "evaluated" =>
       bx.result = ChainValue(eval(bx.head.obj, ChainScopes, FALSE), bx.chain)

\* `'Bob2' | substr: 0, 3 | uppercase` has been evaluated to "BOB"
C11_Witness ==
  /\ bx.st = "evaluated"
  /\ Len(bx.chain) = 2
  /\ bx.chain[1].name = "substr" /\ bx.chain[2].name = "uppercase"
  /\ bx.result = Ok(JStr(<<"B", "O", "B">>))


(***************************************************************************)
(* C12: when readNode starts at a `{{` with no `}}` after its two bytes,   *)
(* or at a `{%` with no `%}` after its two bytes, the parse ends with the  *)
(* parse error of the unmatched opener: no node list is returned and no    *)
(* node is added for the rest of the text.  `{%}` and `{{}` are such       *)
(* openers.                                                                *)
(***************************************************************************)
OpenerAt(doc, k) ==
  /\ k + 1 < Len(doc)
  /\ charAt(doc, k) = "{"
  /\ charAt(doc, k + 1) \in {"{", "%"}

CloserAfter(doc, k) ==
  \E j \in (k + 2)..(Len(doc) - 2) :
    /\ charAt(doc, j) = (IF charAt(doc, k + 1) = "{" THEN "}" ELSE "%")
    /\ charAt(doc, j + 1) = "}"

Unterminated(doc, k) == OpenerAt(doc, k) /\ ~CloserAfter(doc, k)

UnmatchedMessages ==
  {"Could not match '{{' with a closing '}}'", "Could not match '{%' with a closing '%}'"}

C12_UnterminatedOpenerFails ==
  (bx.span.kind # "none" /\ Unterminated(bx.parser.document, bx.at)) =>
     /\ bx.st = "error"
     /\ bx.error.msg \in UnmatchedMessages
     /\ bx.parser.mPosition = bx.at

\* the parse of `a{%}` has failed at the opener after the text node
C12_Witness ==
  /\ bx.source = <<"a", "{", "%", "}">>
  /\ bx.st = "error"
  /\ bx.at = 1
  /\ bx.parser.mNodes = <<Text(<<"a">>)>>


(***************************************************************************)
(* C13: a tag endif, elsif or else processed when the open-block stack is  *)
(* empty or its top is not an if, an endfor when it is empty or its top is *)
(* not a for, and an endcapture when it is empty or its top is not a       *)
(* capture, ends the parse with a parse error, and the stack is the one    *)
(* the tag found.                                                          *)
(***************************************************************************)
OpenerOf ==
  [t \in {"endif", "elsif", "else", "endfor", "endcapture"} |->
     CASE t = "endfor" -> "For" [] t = "endcapture" -> "Capture" [] OTHER -> "If"]

\* the tag of the last readNode did not find its opener on top of the stack
Mismatched ==
  /\ bx.tag \in DOMAIN OpenerOf
  /\ \/ bx.before = <<>>
     \/ bx.before[Len(bx.before)].k # OpenerOf[bx.tag]

C13_MismatchedCloserFails ==
  Mismatched => /\ bx.st = "error"
                /\ bx.error.msg = "Unexpected '" \o bx.tag \o "' tag"
                /\ bx.parser.mStack = bx.before

\* an endfor has been refused while the innermost open block is an if
C13_Witness ==
  /\ bx.tag = "endfor"
  /\ bx.st = "error"
  /\ Len(bx.before) = 1
  /\ bx.before[1].k = "If"
  /\ bx.parser.mStack = bx.before


(***************************************************************************)
(* C14: a document that holds no `{{` and no `{%` parses to text nodes     *)
(* only, whose texts put end to end are the document, and its render, with *)
(* any data, returns the document: no diagnostics, nothing added, nothing  *)
(* lost, lone `{` bytes included.                                          *)
(***************************************************************************)
PlainText(doc) == ~\E k \in 0..(Len(doc) - 2) : OpenerAt(doc, k)

RECURSIVE TextOf(_)
TextOf(nodes) == IF nodes = <<>> THEN <<>> ELSE Head(nodes).text \o TextOf(Tail(nodes))

\* the document from its first byte to the parser's position
Consumed == SubSeq(bx.source, 1, bx.parser.mPosition)

C14_PlainTextRoundTrip ==
  PlainText(bx.source) =>
    /\ bx.st \in {"parsing", "returned"}
    /\ bx.parser.mStack = <<>>
    /\ \A j \in 1..Len(bx.parser.mNodes) : bx.parser.mNodes[j].k = "Text"
    /\ TextOf(bx.parser.mNodes) = Consumed
    /\ bx.st = "returned" => Consumed = bx.source
    /\ phase = "done" => m_result = bx.source /\ m_errors = <<>>

\* `{a{ {` has been parsed to four text nodes and rendered
C14_Witness ==
  /\ bx.source = <<"{", "a", "{", " ", "{">>
  /\ bx.st = "returned"
  /\ Len(bx.parser.mNodes) = 4
  /\ phase = "done"
  /\ m_result = bx.source



\* the tokens of the object span the last readNode handed to ObjectParser::parse
ObjectTokens ==
  IF bx.span.kind = "object" /\ bx.lex.st = "ok" THEN bx.lex.tokens ELSE <<>>

\* a '|' that is not followed by an identifier
FilterNameMissing(tokens) ==
  \E j \in 1..Len(tokens) :
    /\ tokens[j].kind = "Pipe"
    /\ j = Len(tokens) \/ tokens[j + 1].kind # "Identifier"

\* C15: for every non-empty token sequence the expression parser returns one
\* expression tree or fails with a parse error that carries the offset of one
\* of the tokens; in particular it fails when the token after a `|` is
\* missing or is not an identifier (the filter name).
C15_ExpressionParserFailsWithOffset ==
  ObjectTokens # <<>> =>
    /\ bx.st \in {"parsing", "returned", "error"}
    /\ bx.st = "error" =>
         \E j \in 1..Len(ObjectTokens) : bx.error.off = ObjectTokens[j].off
    /\ FilterNameMissing(ObjectTokens) => bx.st = "error"



(***************************************************************************)
(* C16: the span of an object or a tag, read left to right: a quote        *)
(* outside a string literal opens one, the same quote closes it.           *)
(***************************************************************************)
\* the characters between the opener and the closer of the last span read
LastSpan ==
  LET s == node_span(bx.parser.document, bx.at)
  IN SubSeq(bx.parser.document, s.from + 1, s.endpos)

RECURSIVE OpenQuote(_, _)
\* the quote of the string literal that is open after the characters, or ""
OpenQuote(chars, open) ==
  IF chars = <<>> THEN open
  ELSE IF open = ""
    THEN OpenQuote(Tail(chars), IF Head(chars) \in {"'", "\""} THEN Head(chars) ELSE "")
  ELSE OpenQuote(Tail(chars), IF Head(chars) = open THEN "" ELSE open)

UnmatchedQuote(chars) == OpenQuote(chars, "") # ""

TokenChars ==
  {" ", "\n", "_", "'", "\"", "[", "]", "|", ":", ".", ","}
    \cup Letters \cup DigitSet \cup mPunctuators

\* a character no token can hold
BadChar(chars) == \E j \in 1..Len(chars) : chars[j] \notin TokenChars

\* such a character outside every string literal
BadCharOutsideLiteral(chars) ==
  \E j \in 1..Len(chars) :
    /\ chars[j] \notin TokenChars
    /\ OpenQuote(SubSeq(chars, 1, j - 1), "") = ""

LexFails ==
  /\ bx.lex.st = "error"
  /\ bx.lex.off \in Nat
  /\ bx.st = "error"
  /\ bx.error = [off |-> bx.lex.off, msg |-> bx.lex.msg]

\* C16 as stated: tokenizing a span fails with an error carrying an offset,
\* and returns no token list, whenever the span holds a string literal whose
\* opening quote has no matching quote inside the span, or a character that
\* is not whitespace, a letter, a digit, an underscore, a quote, a bracket,
\* one of `| : . ,` or a punctuator.
C16_BadSpanFails ==
  (bx.lex.st # "none" /\ (UnmatchedQuote(LastSpan) \/ BadChar(LastSpan))) => LexFails

\* C16 amended: the same, for such a character outside every string literal.
C16_BadSpanOutsideLiteralFails ==
  (bx.lex.st # "none" /\ (UnmatchedQuote(LastSpan) \/ BadCharOutsideLiteral(LastSpan)))
    => LexFails

\* `{{'a}}'`: the quote opened in the span is matched only after the closer
C16_Witness ==
  /\ bx.parser.document = <<"{", "{", "'", "a", "}", "}", "'">>
  /\ LastSpan = <<"'", "a">>
  /\ LexFails



(***************************************************************************)
(* C17: every call of render starts from the reset state, so what a call   *)
(* returns depends on its template and data only.                          *)
(***************************************************************************)
\* render has reset and pushed template_scope, no node has been processed
AtRenderStart ==
  /\ phase = "running"
  /\ trace = <<>>
  /\ Len(cstack) = 1 /\ Top.op = "render" /\ Top.i = 1 /\ Top.pc = "call"

\* the scope stack after reset, the seeding of frame 0 and template_scope
StartScopes ==
  PushScope(<<[ScopeData("GlobalScope", "") EXCEPT !.data = input.data]>>,
            "FileScope", input.template.filePath)

C17_RenderStartsReset ==
  /\ AtRenderStart =>
       /\ m_result = <<>>
       /\ m_errors = <<>>
       /\ flags = 0
       /\ scopes = StartScopes
  /\ \A a \in 1..Len(bx), b \in 1..Len(bx) :
       bx[a].input = bx[b].input =>
         bx[a].result = bx[b].result /\ bx[a].errors = bx[b].errors
  /\ phase = "done" =>
       \A a \in 1..Len(bx) :
         bx[a].input = input => bx[a].result = m_result /\ bx[a].errors = m_errors

\* `{% break %}a` has left Break set, then the loop over [1, 2] has been rendered
C17_Witness ==
  /\ Len(bx) = 1
  /\ bx[1].input.template.nodes = <<Break, TextA>>
  /\ phase = "done"
  /\ input.template.nodes = <<For("x", Variable("xs"), <<EX>>), EX>>
  /\ m_result = <<"1", "2", "7">>



\* the register without the bit
ClearFlag(f, bit) == IF HasFlag(f, bit) THEN f - bit ELSE f

\* C18: after an execution of a for body the for handler clears Break and
\* Continue only: the Eject and Discard bits stay as they were, and when
\* neither Break nor Continue is set the register is left exactly as it was.
C18_ForClearsOnlyItsFlags ==
  [][(Running("for") /\ Top.pc = "after") =>
       /\ flags' = ClearFlag(ClearFlag(flags, FlagBreak), FlagContinue)
       /\ HasFlag(flags', FlagEject) = HasFlag(flags, FlagEject)
       /\ HasFlag(flags', FlagDiscard) = HasFlag(flags, FlagDiscard)]_vars



\* the capture tag entered at entry i of the history is still being executed
CaptureRunning(i) ==
  \E j \in 1..Len(cstack) : cstack[j].op = "capture" /\ cstack[j].id = i

\* C19: every capture tag that has been executed, however its body ended, has
\* stored its text and has left the output buffer with the length it had
\* before the tag.
C19_CaptureKeepsOutput ==
  \A i \in 1..Len(trace) :
    (trace[i].k = "Capture" /\ ~CaptureRunning(i)) =>
      \E j \in (i + 1)..Len(trace) :
        /\ trace[j].k = "endcapture"
        /\ trace[j].par = i
        /\ trace[j].out = trace[i].out



(***************************************************************************)
(* C20: the frame an assign writes to, and the modifiers the parser sets.  *)
(***************************************************************************)
\* the file scopes of the stack, innermost first
FileFrame(sc, n) ==
  CHOOSE k \in 1..Len(sc) :
    /\ sc[k].kind = "FileScope"
    /\ Cardinality({j \in (k + 1)..Len(sc) : sc[j].kind = "FileScope"}) = n

\* the frame the claim names for the modifier of the assign
NamedFrame(assign, sc) ==
  IF assign.global_scope THEN 1
  ELSE IF assign.parent_scope THEN FileFrame(sc, 1)
  ELSE FileFrame(sc, 0)

\* the step is an assign that has evaluated its value
AssignStep == AtNode({"Assign"}) /\ phase' = "running" /\ m_errors' = m_errors

\* the node the parser dispatched last
LastDispatched ==
  LET p == bx.parser
  IN IF p.mStack = <<>> THEN p.mNodes[Len(p.mNodes)]
     ELSE p.mStack[Len(p.mStack)].body[Len(p.mStack[Len(p.mStack)].body)]

\* the last tag read was an assign tag and it was accepted: its node has the
\* modifier that its last token names, and the tokens before it are the value
AssignParsed ==
  (bx.tag = "assign" /\ bx.st \in {"parsing", "returned"}) =>
    LET tokens == bx.lex.tokens
        last == toString(tokens[Len(tokens)])
        n == LastDispatched
        modifier == last \in {"parent_scope", "global"}
        value == SubSeq(tokens, 4, IF modifier THEN Len(tokens) - 1 ELSE Len(tokens))
    IN /\ n.k = "Assign"
       /\ n.variable = toString(tokens[2])
       /\ ~(n.parent_scope /\ n.global_scope)
       /\ n.parent_scope <=> last = "parent_scope"
       /\ n.global_scope <=> last = "global"
       /\ \E junk \in JunkInfos : parseObject(value, junk) = Parsed(n.value, <<>>)

\* C20: an assign changes exactly one frame, the one its modifier names (the
\* current file scope and never a loop frame without modifier, the file scope
\* one level up with parent_scope, frame 0 with global), and the parser sets
\* at most one modifier, from the last token of the tag only.
C20_AssignWritesOneFrame ==
  /\ []AssignParsed
  /\ [][AssignStep =>
          LET at == NamedFrame(Cur, scopes)
          IN /\ Len(scopes') = Len(scopes)
             /\ \A k \in 1..Len(scopes) : k # at => scopes'[k] = scopes[k]
             /\ \E build \in Builds :
                  /\ eval(Cur.value, scopes, build).st = "ok"
                  /\ scopes'[at] =
                       [scopes[at] EXCEPT
                          !.data = WithMember(@, Cur.variable,
                                              eval(Cur.value, scopes, build).v)]
             /\ at # 1 => scopes[at].kind = "FileScope"]_vars

\* `{%for x in xs%}{%assign y = 1%}{%endfor%}` has been parsed and the assign
\* of the loop body has just run: y is in the file scope, not in the loop frame
C20_Witness ==
  /\ bx.st = "returned"
  /\ bx.parser.mNodes =
       <<For("x", Variable("xs"), <<Assign("y", Value(JInt(1)), FALSE, FALSE)>>)>>
  /\ phase = "running"
  /\ trace # <<>> /\ trace[Len(trace)].k = "Assign"
  /\ Len(scopes) = 3
  /\ scopes[3].kind = "ControlBlockScope"
  /\ Member(scopes[3].data, "y") = Null
  /\ Member(scopes[2].data, "y") = JInt(1)


(***************************************************************************)
(* C21: the include tag and its file scope.                                *)
(***************************************************************************)
\* the names an include tag binds
BindingNames(tag) == {tag.objects[b].name : b \in 1..Len(tag.objects)}

\* the frame is the file scope of the included template, with the include
\* namespace of the tag: one entry per binding and the marker
IncludeFrame(frame, tag) ==
  /\ frame.kind = "FileScope"
  /\ frame.template = m_templates[tag.name].filePath
  /\ Member(frame.data, "include").t = "obj"
  /\ DOMAIN Member(frame.data, "include").o = BindingNames(tag) \cup {"__"}
  /\ "__" \notin BindingNames(tag) => Member(frame.data, "include").o["__"] = JBool(TRUE)

\* the activations of visitTag(Include) in progress
IncludeActs(cs) == {j \in 1..Len(cs) : cs[j].op = "include"}

\* while an include is in progress its frame sits right above the frames that
\* were there before the tag, and the nodes processed in it are the template's
IncludeInProgress ==
  phase = "running" =>
    \A j \in IncludeActs(cstack) :
      LET d == trace[cstack[j].id].depth
      IN /\ Len(scopes) > d
         /\ IncludeFrame(scopes[d + 1], cstack[j].tag)
         /\ j < Len(cstack) =>
              /\ cstack[j + 1].op = "nodes"
              /\ cstack[j + 1].nodes = m_templates[cstack[j].tag.name].nodes

\* the step is the call of visitTag(Include)
IncludeCalled == AtNode({"Include"})

\* the step records an EvaluationException
Threw == Len(m_errors') = Len(m_errors) + 1

\* C21: an include of an unknown name throws "No template named" with no
\* scope pushed and nothing written by the tag (the only text added is the
\* marker that render writes for the diagnostic); an include of a known name
\* pushes one file scope holding the include namespace with one entry per
\* binding plus the marker, runs the template's nodes in it, and the scope is
\* gone when the tag is left: by return (normal end or flag set) the stack has
\* the depth it had before the tag, by an error no frame of the tag is left.
C21_IncludeScope ==
  /\ []IncludeInProgress
  /\ [][/\ (IncludeCalled /\ Cur.name \notin DOMAIN m_templates) =>
             /\ Threw
             /\ m_errors'[Len(m_errors')].message = "No template named"
             /\ m_result' = m_result \o Marker("No template named")
             /\ Len(scopes') <= Len(scopes)
             /\ scopes' = SubSeq(scopes, 1, Len(scopes'))
        /\ (IncludeCalled /\ Cur.name \in DOMAIN m_templates) =>
             \/ phase' = "crashed"
             \/ Threw /\ Len(scopes') <= Len(scopes)
             \/ /\ m_errors' = m_errors /\ m_result' = m_result /\ flags' = flags
                /\ Len(scopes') = Len(scopes) + 1
                /\ SubSeq(scopes', 1, Len(scopes)) = scopes
                /\ IncludeFrame(scopes'[Len(scopes')], Cur)
                /\ Len(cstack') = Len(cstack) + 2
                /\ cstack'[Len(cstack) + 1].op = "include"
        /\ Running("include") =>
             /\ scopes' = PopScope(scopes)
             /\ Len(scopes') = trace[Top.id].depth
             /\ cstack' = Pop(cstack)
             /\ flags' = flags /\ m_result' = m_result
        /\ \A j \in IncludeActs(cstack) :
             (phase' = "running" /\ (j > Len(cstack') \/ cstack'[j] # cstack[j])) =>
               Len(scopes') <= trace[cstack[j].id].depth]_vars

\* `{% include brk with v = x %}{{ x }}`: the included template has set Break,
\* the tag has returned with the stack as deep as before it, and render is done
C21_Witness ==
  /\ phase = "done"
  /\ input.template.nodes = <<Include("brk", <<[name |-> "v", value |-> EX]>>), EX>>
  /\ m_result = <<"i", "7">>
  /\ \E j \in 1..Len(trace) :
       /\ trace[j].k = "endinclude"
       /\ trace[j].par = 1
       /\ HasFlag(trace[j].flags, FlagBreak)
       /\ trace[j].depth = trace[1].depth


(***************************************************************************)
(* C22: short circuit of and / or, both operands of xor, left then right.  *)
(***************************************************************************)
\* the truthiness the claim states
Truthiness(val) ==
  CASE val.t = "bool" -> val.b
    [] val.t = "int" -> val.i # 0
    [] val.t = "null" -> FALSE
    [] OTHER -> TRUE

\* what the claim says `a op b` gives: a first; b only when the operator
\* needs it; the error of the first operand that raises one
LeftThenRight(binop, sc, build) ==
  LET a == eval(binop.lhs, sc, build)
      b == eval(binop.rhs, sc, build)
  IN IF a.st # "ok" THEN a
     ELSE IF binop.operation = "And" /\ ~Truthiness(a.v) THEN Ok(JBool(FALSE))
     ELSE IF binop.operation = "Or" /\ Truthiness(a.v) THEN Ok(JBool(TRUE))
     ELSE IF b.st # "ok" THEN b
     ELSE Ok(JBool(CASE binop.operation = "And" -> Truthiness(a.v) /\ Truthiness(b.v)
                     [] binop.operation = "Or" -> Truthiness(a.v) \/ Truthiness(b.v)
                     [] OTHER -> Truthiness(a.v) # Truthiness(b.v)))

\* what render has made of a result
Rendered(r) ==
  CASE r.st = "crash" -> phase = "crashed"
    [] r.st = "throw" ->
         phase = "done" /\ m_errors = <<[message |-> r.msg]>> /\ m_result = Marker(r.msg)
    [] OTHER -> phase = "done" /\ m_errors = <<>> /\ m_result = stringify(r.v)

LogicNode ==
  /\ Len(input.template.nodes) = 1
  /\ input.template.nodes[1].k = "BinOp"
  /\ input.template.nodes[1].operation \in {"And", "Or", "Xor"}

\* C22: the outcome of rendering `{{ a op b }}` is the one of evaluating a,
\* then b unless and / or has its value from a alone: no diagnostic and no
\* crash comes from an operand that is not evaluated, and the diagnostic of
\* `a xor b` is the one of a when both operands raise.
C22_LogicLeftThenRight ==
  (phase \in {"done", "crashed"} /\ LogicNode) =>
    \E trap \in BOOLEAN :
      Rendered(LeftThenRight(input.template.nodes[1], scopes,
                             [trap |-> trap, xor_rhs_first |-> FALSE]))


(***************************************************************************)
(* C23: an arithmetic operator on operands it cannot combine raises an     *)
(* error that names the operator.                                          *)
(***************************************************************************)
\* the operand types the claim lets each operator combine (the values of the
\* model have no floating-point numbers)
Combines(op, l, r) ==
  \/ l.t = "int" /\ r.t = "int"
  \/ op = "Add" /\ l.t = r.t /\ l.t \in {"str", "arr"}

\* the message that names the operator
NamesOperator(op) ==
  CASE op = "Add" -> "operator + cannot proceed with given operands"
    [] op = "Sub" -> "operator - cannot proceed with given operands"
    [] op = "Mul" -> "operator * cannot proceed with given operands"
    [] op = "Div" -> "operator / cannot proceed with given operands"

ArithmeticNode ==
  /\ Len(input.template.nodes) = 1
  /\ input.template.nodes[1].k = "BinOp"
  /\ input.template.nodes[1].operation \in {"Add", "Sub", "Mul", "Div"}

\* C23: when both operands of `a op b` have a value and the operator cannot
\* combine their types, render records one diagnostic, whose message names op.
C23_ArithmeticErrorNamesOperator ==
  (phase = "done" /\ ArithmeticNode) =>
    LET n == input.template.nodes[1]
        l == eval(n.lhs, scopes, [trap |-> FALSE, xor_rhs_first |-> FALSE])
        r == eval(n.rhs, scopes, [trap |-> FALSE, xor_rhs_first |-> FALSE])
    IN (l.st = "ok" /\ r.st = "ok" /\ ~Combines(n.operation, l.v, r.v)) =>
         /\ m_errors = <<[message |-> NamesOperator(n.operation)]>>
         /\ m_result = Marker(NamesOperator(n.operation))


(***************************************************************************)
(* C24: a block that is still open at the end of the input is dropped.     *)
(***************************************************************************)
\* the step is a step of Parser::parse that leaves a block open
LeavesBlockOpen == bx.st = "parsing" /\ bx'.parser.mStack # <<>>

\* the end of the input is reached with a block open
EndsInsideBlock ==
  bx.st = "parsing" /\ Parser_atEnd(bx.parser) /\ bx.parser.mStack # <<>>

\* the top-level list that Parser::parse returned while a block was open
ReturnedInsideBlock == bx.st = "returned" /\ bx.parser.mStack # <<>>

\* C24: a node read while a block is open, and the tag that opens a block, do
\* not reach the top-level list as long as a block stays open; at the end of
\* the input parse returns the top-level list whatever the stack holds, with
\* no error, so the block still open and all that was dispatched into it are
\* not in what is returned.
C24_UnclosedBlockDropped ==
  /\ [](ReturnedInsideBlock => bx.error = NoError)
  /\ [][/\ LeavesBlockOpen => bx'.parser.mNodes = bx.parser.mNodes
        /\ EndsInsideBlock =>
             /\ bx'.st = "returned"
             /\ bx'.parser = bx.parser
             /\ bx'.error = NoError]_vars

\* `a{%for x in xs%}{{x}}` has been parsed: the text is returned, the for tag
\* with its body is left on the stack
C24_Witness ==
  /\ bx.st = "returned"
  /\ bx.source = <<"a">> \o <<"{", "%", "f", "o", "r", " ", "x", " ", "i", "n", " ", "x", "s", "%", "}">> \o <<"{", "{", "x", "}", "}">>
  /\ bx.parser.mNodes = <<Text(<<"a">>)>>
  /\ bx.parser.mStack = <<For("x", Variable("xs"), <<Variable("x")>>)>>
  /\ bx.error = NoError




(***************************************************************************)
(* C25.  The open-block stack of Parser::parse.                            *)
(***************************************************************************)
BlockKinds == {"If", "For", "Capture"}
OpeningTags == {"if", "for", "capture"}
AddingTags == {"elsif", "else"}
ClosingTags == {"endif", "endfor", "endcapture"}

\* the kind of block a tag opens
Opens(tag) == CASE tag = "if" -> "If" [] tag = "for" -> "For" [] tag = "capture" -> "Capture"

\* the list that is current: the top-level list, or the body of the stack top
CurrentList(p) ==
  IF p.mStack = <<>> THEN p.mNodes
  ELSE LET top == p.mStack[Len(p.mStack)]
       IN IF top.k = "If" THEN top.blocks[Len(top.blocks)].body ELSE top.body

\* the lists of the parser that are not current
OtherLists(p) ==
  IF p.mStack = <<>> THEN <<>>
  ELSE LET top == p.mStack[Len(p.mStack)]
       IN <<p.mNodes, Pop(p.mStack),
            IF top.k = "If"
              THEN [top EXCEPT !.blocks[Len(top.blocks)].body = <<>>]
            ELSE [top EXCEPT !.body = <<>>]>>

\* the parser q is the parser p with the node n at the end of its current list
AppendedToCurrent(p, q, n) ==
  /\ CurrentList(q) = Append(CurrentList(p), n)
  /\ OtherLists(q) = OtherLists(p)

RECURSIVE CountNodes(_), CountBlocks(_)
\* the number of nodes in a list of nodes, their bodies included
CountNodes(nodes) ==
  IF nodes = <<>> THEN 0
  ELSE LET n == Head(nodes)
       IN 1 + CountNodes(Tail(nodes))
            + (CASE n.k = "If" -> CountBlocks(n.blocks)
                 [] n.k \in {"For", "Capture"} -> CountNodes(n.body)
                 [] OTHER -> 0)

CountBlocks(blocks) ==
  IF blocks = <<>> THEN 0
  ELSE CountNodes(Head(blocks).body) + CountBlocks(Tail(blocks))

\* the tag name of a piece of a document, as characters; <<>> for text and objects
PieceName(piece) ==
  IF Len(piece) < 2 \/ piece[2] # "%" THEN <<>>
  ELSE LET stops == {k \in 3..Len(piece) : piece[k] \in {" ", "%"}}
       IN SubSeq(piece, 3, (CHOOSE k \in stops : \A h \in stops : k <= h) - 1)

NameIf == <<"i", "f">>
NameFor == <<"f", "o", "r">>
NameCapture == <<"c", "a", "p", "t", "u", "r", "e">>

RECURSIVE Balanced(_, _)
\* every closer, elsif and else of the pieces belongs to the block that is open
Balanced(pieces, open) ==
  IF pieces = <<>> THEN open = <<>>
  ELSE LET t == PieceName(Head(pieces))
           rest == Tail(pieces)
       IN CASE t \in {NameIf, NameFor, NameCapture} -> Balanced(rest, Append(open, t))
            [] t \in {<<"e", "l", "s", "e">>, <<"e", "l", "s", "i", "f">>} ->
                 open # <<>> /\ open[Len(open)] = NameIf /\ Balanced(rest, open)
            [] Len(t) > 3 /\ SubSeq(t, 1, 3) = <<"e", "n", "d">> ->
                 /\ open # <<>>
                 /\ open[Len(open)] = SubSeq(t, 4, Len(t))
                 /\ Balanced(rest, Pop(open))
            [] OTHER -> Balanced(rest, open)

WellNestedDocs == {Flatten(d) : d \in {e \in SeqsUpTo(BlockPieces, MaxTags) : Balanced(e, <<>>)}}

\* a call of readNode that returned
ReadNodeReturned == bx.st = "parsing" /\ bx'.st = "parsing" /\ bx' # bx

\* C25: the stack of Parser::parse holds only if, for and capture tags; a
\* call of readNode that read an if, for or capture tag pushes an empty block
\* of that kind, one that read elsif or else adds an empty block to the if on
\* top without popping, one that read endif, endfor or endcapture pops the top
\* and appends it to the list that is current after the pop, and any other
\* appends one node to the current list; every call keeps each node once in
\* the top-level list and the stack together; a well-nested document ends
\* with an empty stack
C25_BlockStack ==
  /\ [](\A j \in 1..Len(bx.parser.mStack) : bx.parser.mStack[j].k \in BlockKinds)
  /\ []((bx.st = "returned" /\ bx.source \in WellNestedDocs) => bx.parser.mStack = <<>>)
  /\ [][ReadNodeReturned =>
          LET p == bx.parser
              q == bx'.parser
              top == p.mStack[Len(p.mStack)]
              pushed == q.mStack[Len(q.mStack)]
              popped == [p EXCEPT !.mStack = Pop(@)]
              node == CurrentList(q)[Len(CurrentList(q))]
          IN /\ bx'.tag \in OpeningTags =>
                  /\ q.mNodes = p.mNodes
                  /\ q.mStack = Append(p.mStack, pushed)
                  /\ pushed.k = Opens(bx'.tag)
                  /\ CurrentList(q) = <<>>
                  /\ CountNodes(<<pushed>>) = 1
             /\ bx'.tag \in AddingTags =>
                  /\ q.mNodes = p.mNodes
                  /\ Pop(q.mStack) = Pop(p.mStack)
                  /\ Len(q.mStack) = Len(p.mStack)
                  /\ top.k = "If" /\ pushed.k = "If"
                  /\ Len(pushed.blocks) = Len(top.blocks) + 1
                  /\ SubSeq(pushed.blocks, 1, Len(top.blocks)) = top.blocks
                  /\ CurrentList(q) = <<>>
             /\ bx'.tag \in ClosingTags =>
                  /\ p.mStack # <<>>
                  /\ AppendedToCurrent(popped, q, top)
             /\ bx'.tag \notin OpeningTags \cup AddingTags \cup ClosingTags =>
                  /\ CurrentList(q) # <<>>
                  /\ node.k \notin BlockKinds
                  /\ AppendedToCurrent(p, q, node)
             /\ CountNodes(q.mNodes) + CountNodes(q.mStack)
                  = CountNodes(p.mNodes) + CountNodes(p.mStack)
                      + (IF bx'.tag \in AddingTags \cup ClosingTags THEN 0 ELSE 1)]_vars

C25_Witness ==
  /\ bx.st = "returned"
  /\ bx.source \in WellNestedDocs
  /\ bx.tag = "endfor"
  /\ bx.before # <<>>
  /\ bx.parser.mStack = <<>>
  /\ bx.parser.mNodes = <<For("x", Variable("xs"), <<Variable("x")>>)>>




(***************************************************************************)
(* C26.  Parser::parse terminates.                                         *)
(***************************************************************************)
RECURSIVE TextsNotEmpty(_), BlockTextsNotEmpty(_)
\* no Text node of the list, bodies included, has empty text
TextsNotEmpty(nodes) ==
  \A j \in 1..Len(nodes) :
    LET n == nodes[j]
    IN CASE n.k = "Text" -> n.text # <<>>
         [] n.k = "If" -> BlockTextsNotEmpty(n.blocks)
         [] n.k \in {"For", "Capture"} -> TextsNotEmpty(n.body)
         [] OTHER -> TRUE

BlockTextsNotEmpty(blocks) == \A j \in 1..Len(blocks) : TextsNotEmpty(blocks[j].body)

\* a call of readNode ended, one way or another
ReadNodeCalled == bx.st = "parsing" /\ bx' # bx /\ bx'.span.kind # "none" /\ bx'.st # "returned"

\* C26: the loop of Parser::parse makes progress on every document, so that
\* it ends after at most as many calls as the document has characters: a
\* call of readNode either ends parse with an exception (or the process, where its behaviour
\* is undefined) or leaves the position strictly greater than it found it
\* and at most the length of the document, and no Text node in the top-level
\* list or in an open block has empty text
C26_ParseTerminates ==
  /\ [](bx.parser.mPosition \in 0..Len(bx.parser.document))
  /\ [](TextsNotEmpty(bx.parser.mNodes) /\ TextsNotEmpty(bx.parser.mStack))
  /\ [][ReadNodeCalled =>
          \/ bx'.st # "parsing" /\ bx'.parser = bx.parser
          \/ /\ bx'.st = "parsing"
             /\ bx'.parser.mPosition > bx.parser.mPosition
             /\ bx'.parser.mPosition <= Len(bx.parser.document)
             /\ bx'.parser.document = bx.parser.document]_vars

C26_Witness ==
  /\ bx.st = "returned"
  /\ bx.source = <<"a", "{", "a", "{">>
  /\ bx.parser.mPosition = 4
  /\ bx.parser.mNodes = <<Text(<<"a">>), Text(<<"{">>), Text(<<"a", "{">>)>>




(***************************************************************************)
(* C27.  Spans without tokens and tags without their required tokens.      *)
(***************************************************************************)
\* the span that was read holds no token, or is one of the tags assign, for
\* and capture without the tokens the tag requires
TokensMissing ==
  /\ bx.span.kind \in {"object", "tag"}
  /\ bx.lex.st = "ok"
  /\ LET given == Len(bx.lex.tokens) - 1
         last == toString(bx.lex.tokens[Len(bx.lex.tokens)])
     IN \/ bx.lex.tokens = <<>>
        \/ bx.tag = "assign" /\ given < 3
        \/ bx.tag = "assign" /\ given = 3 /\ last \in {"global", "parent_scope"}
        \/ bx.tag = "for" /\ given < 2
        \/ bx.tag = "capture" /\ given < 1

\* C27: when the span read by readNode holds no token, or holds an assign,
\* for or capture tag without its required tokens, parse fails with a
\* ParserException
C27_MissingTokensRejected ==
  TokensMissing => (bx.st = "error" /\ bx.error # NoError)




(***************************************************************************)
(* C28.  One diagnostic and one marker per call of render.                 *)
(***************************************************************************)
\* the places of the output where a diagnostic marker begins
MarkerStarts == {j \in 1..Len(m_result) : m_result[j] = "{!"}

\* the entries the step adds to the history
Added == {j \in 1..Len(trace') : j > Len(trace)}

\* the last node render entered
LastNodeEntered ==
  LET entered == {j \in Entries : IsNode(trace[j])}
  IN CHOOSE j \in entered : \A h \in entered : h <= j

\* C28: a call of render records at most one diagnostic and writes at most
\* one marker; once the diagnostic is recorded the output is empty or ends
\* with its marker, no further diagnostic is recorded, process is entered for
\* no further node, and the output receives no further text
C28_OneDiagnostic ==
  /\ [](Len(m_errors) <= 1 /\ Cardinality(MarkerStarts) <= 1)
  /\ [](m_errors # <<>> =>
          \/ m_result = <<>>
          \/ /\ Len(m_result) >= 3
             /\ SubSeq(m_result, Len(m_result) - 2, Len(m_result))
                  = Marker(m_errors[1].message))
  /\ [][m_errors # <<>> =>
          /\ m_errors' = m_errors
          /\ m_result' \in {m_result, <<>>}
          /\ Len(trace') >= Len(trace)
          /\ SubSeq(trace', 1, Len(trace)) = trace
          /\ \A j \in Added : ~IsNode(trace'[j])]_vars

C28_Witness ==
  /\ phase = "done"
  /\ Len(m_errors) = 1
  /\ flags = 0
  /\ m_result # <<>>
  /\ \E j \in Entries : IsNode(trace[j])
  /\ LET e == trace[LastNodeEntered]
     IN e.par = 0 /\ ~e.last /\ e.flags = 0 /\ e.idx < Len(input.template.nodes)




(***************************************************************************)
(* C29.  The binding expressions of an include.                            *)
(***************************************************************************)
\* the step is a call of visitTag(Include) that went on to the template's nodes
IncludeEntered ==
  /\ IncludeCalled
  /\ Cur.name \in DOMAIN m_templates
  /\ Len(scopes') = Len(scopes) + 1
  /\ Len(cstack') = Len(cstack) + 2

\* the value the include namespace of the new frame holds for the name
Bound(name) == Member(Member(scopes'[Len(scopes')].data, "include").o, name)

\* C29: when an include enters its template, its namespace holds for every
\* binding the value of the binding's expression in the scopes of the
\* including template, as they were before the tag
C29_BindingsReadIncluder ==
  [][IncludeEntered =>
       \A b \in 1..Len(Cur.objects) :
         \E build \in Builds :
           eval(Cur.objects[b].value, scopes, build) = Ok(Bound(Cur.objects[b].name))]_vars




(***************************************************************************)
(* C30.  The tokenizer's cursor and the span.  A ParserException of the    *)
(* tokenizer carries mInput.offset_ + position(), the cursor at the throw. *)
(***************************************************************************)
\* the offsets of the last span read: its first character and its closer
LastFrom == node_span(bx.parser.document, bx.at).from
LastEnd == node_span(bx.parser.document, bx.at).endpos

\* the tokens lie inside the span, one after the other
TokensInsideSpan(tokens) ==
  \A j \in 1..Len(tokens) :
    /\ tokens[j].chars # <<>>
    /\ tokens[j].off >= LastFrom
    /\ tokens[j].off + Len(tokens[j].chars) <= LastEnd
    /\ j > 1 => tokens[j - 1].off + Len(tokens[j - 1].chars) <= tokens[j].off
    /\ tokens[j].chars =
         SubSeq(bx.parser.document, tokens[j].off + 1, tokens[j].off + Len(tokens[j].chars))

\* C30: tokenizing a span keeps the cursor within the span and reads no
\* character outside it: the call never fails on a character outside the
\* document, an exception is thrown with the cursor at most at the span's
\* length, and the tokens returned lie inside the span in strictly increasing
\* order without overlap
C30_CursorInsideSpan ==
  bx.lex.st # "none" =>
    /\ bx.lex.st # "out_of_range"
    /\ bx.lex.st = "error" => bx.lex.off \in LastFrom..LastEnd
    /\ bx.lex.st = "ok" => TokensInsideSpan(bx.lex.tokens)


====
